---- MODULE Spec2Model ----
(***************************************************************************)
(* Model of the pipeline editor core: PipelineManagerEditor (Editor.js)    *)
(* and EditorManager (EditorManager.js).  The editor keeps a registry of   *)
(* graph objects, an active graph, a navigation stack of subgraph frames   *)
(* and loads / saves dataflow documents in single-graph or multi-graph     *)
(* form.                                                                   *)
(***************************************************************************)
EXTENDS Naturals, Sequences, FiniteSets, TLC

(***************************************************************************)
(* Values                                                                  *)
(***************************************************************************)

\* JavaScript's `undefined`, where a string, an object or an array is expected.
Undefined == "undefined"

UndefinedObj == [undefined |-> TRUE]

UndefinedList == <<UndefinedObj>>

\* Identifiers a document may give to its graphs and templates.
TemplateIds == {"g1", "g2", "g3"}

\* The longest `subgraphs` list of a document.
MaxTemplates == 3

\* The largest number of nodes in one document (all graphs together).
MaxNodes == 2

\* Number of graph objects the editor's heap can hold.
MaxGraphs == 6

\* Number of loads that may be suspended at the same time.
MaxLoads == 1

NoGraph == 0

\* No run of the validator script.
NoProcess == [pc |-> "none"]

Keys == 1..MaxGraphs

(***************************************************************************)
(* Dataflow documents                                                      *)
(***************************************************************************)

\* A node of a document: id, name, type and the optional subgraph reference.
\* `graphState` is filled in by load and by save.
DocNode(t, i, ref) ==
    [id |-> 10 * t + i,
     name |-> "n" \o ToString(10 * t + i),
     type |-> IF ref = Undefined THEN "A" ELSE "graph",
     subgraph |-> ref,
     graphState |-> UndefinedObj]

\* A graph (or graph template) of a document.
DocGraph(t, gid, refs) ==
    [id |-> gid,
     name |-> gid,
     nodes |-> [i \in 1..Len(refs) |-> DocNode(t, i, refs[i])],
     connections |-> <<>>,
     panning |-> Undefined,
     scaling |-> Undefined]

SubgraphRefs == TemplateIds \cup {Undefined}

RefSeqs(k) == [1..k -> SubgraphRefs]

\* All lists of n templates, numbered from t, that hold at most `budget`
\* nodes together.
RECURSIVE TemplateLists(_, _, _)
TemplateLists(t, n, budget) ==
    IF n = 0 THEN {<<>>}
    ELSE UNION {
           UNION {
             { <<DocGraph(t, gid, refs)>> \o rest :
                 gid \in TemplateIds, refs \in RefSeqs(k) }
             : rest \in TemplateLists(t + 1, n - 1, budget - k) }
           : k \in 0..budget }

\* Number of nodes of a list of graphs.
RECURSIVE CountNodes(_)
CountNodes(list) ==
    IF list = <<>> THEN 0 ELSE Len(Head(list).nodes) + CountNodes(Tail(list))

\* Template ids are opaque: a list is kept when its ids appear in the order
\* g1, g2, g3 of first occurrence.
IdRank(gid) == CASE gid = "g1" -> 1 [] gid = "g2" -> 2 [] OTHER -> 3

FirstUse(list) ==
    \A i \in 1..Len(list) :
        IdRank(list[i].id) <= 1 + Cardinality({list[j].id : j \in 1..(i - 1)})

\* A repeated id counts as a template of its own against the largest number
\* of templates.
Repeats(list) == Len(list) - Cardinality({list[i].id : i \in 1..Len(list)})

Lists(n, budget) ==
    {l \in TemplateLists(1, n, budget) : FirstUse(l) /\ n + Repeats(l) <= MaxTemplates}

AllTemplateLists == UNION { Lists(n, MaxNodes) : n \in 0..MaxTemplates }

\* Multi-graph form: {graph: {entryGraph}, subgraphs: [...]}.
MultiGraphDocs ==
    { [graph |-> [entryGraph |-> e], subgraphs |-> l] :
        e \in TemplateIds, l \in AllTemplateLists }

\* Single-graph form: {graph: Graph}, with or without a `subgraphs` list.
SingleGraphDocs ==
    UNION {
      { [graph |-> DocGraph(0, "g0", refs), subgraphs |-> l] :
          refs \in RefSeqs(k),
          l \in {UndefinedList} \cup
                UNION { Lists(n, MaxNodes - k) : n \in 0..(MaxTemplates - 1) } }
      : k \in 0..MaxNodes }

\* Documents that lack the fields load reads.
MalformedDocs ==
    { [graph |-> UndefinedObj, subgraphs |-> UndefinedList],
      [graph |-> UndefinedObj, subgraphs |-> <<>>],
      [graph |-> [entryGraph |-> "g1"], subgraphs |-> UndefinedList],
      [graph |-> [entryGraph |-> Undefined], subgraphs |-> UndefinedList] }

Dataflows == MultiGraphDocs \cup SingleGraphDocs \cup MalformedDocs


(***************************************************************************)
(* Reading a document                                                      *)
(***************************************************************************)

\* state.graph.entryGraph of a document whose `graph` is an object.
EntryGraphOf(state) ==
    IF "entryGraph" \in DOMAIN state.graph THEN state.graph.entryGraph ELSE Undefined

\* graph.nodes, `undefined` when the object has no such field.
NodesOf(g) == IF "nodes" \in DOMAIN g THEN g.nodes ELSE UndefinedList

\* Error strings of load, with the value each interpolates.
ErrNoRoot == [msg |-> "No root graph found", arg |-> Undefined, got |-> 0]

ErrNoEntry(id) == [msg |-> "No entry graph found of id", arg |-> id, got |-> 0]

ErrTemplateCount(name, n) ==
    [msg |-> "Expected exactly one template with ID", arg |-> name, got |-> n]

ErrMultipleNodes(id) ==
    [msg |-> "Subgraph has multiple nodes pointing to it", arg |-> id, got |-> 0]

ErrThrown == [msg |-> "TypeError", arg |-> Undefined, got |-> 0]

ErrNodeType(type) == [msg |-> "Node type is not registered", arg |-> type, got |-> 0]

\* The templates of `list` whose id is `id`, in order (Array.filter).
Fitting(list, id) ==
    LET Test(template) == template.id = id IN SelectSeq(list, Test)

\* The depth of calls at which the faulty instantiation below exhausts the
\* call stack.
MaxStack == 6

\* A faulty recurrentSubgraphLoad that never consults usedInstances: it
\* follows a cycle of references until the call stack is exhausted and a
\* RangeError is raised.
RECURSIVE UncheckedLoad(_, _, _, _)
RECURSIVE UncheckedEach(_, _, _, _, _)
UncheckedLoad(state, node, usedInstances, stack) ==
    IF node.subgraph = Undefined
    THEN [errors |-> <<>>, usedInstances |-> usedInstances, node |-> node,
          thrown |-> FALSE, calls |-> 1]
    ELSE IF state.subgraphs = UndefinedList \/ stack = 0
    THEN [errors |-> <<>>, usedInstances |-> usedInstances, node |-> node,
          thrown |-> TRUE, calls |-> 1]
    ELSE LET fittingTemplate == Fitting(state.subgraphs, node.subgraph) IN
         IF Len(fittingTemplate) # 1
         THEN [errors |-> <<ErrTemplateCount(node.name, Len(fittingTemplate))>>,
               usedInstances |-> usedInstances, node |-> node,
               thrown |-> FALSE, calls |-> 1]
         ELSE LET r == UncheckedEach(state, fittingTemplate[1].nodes, 1,
                                     usedInstances, stack - 1) IN
              [errors |-> r.errors,
               usedInstances |-> r.usedInstances,
               node |-> [node EXCEPT !.graphState =
                            [fittingTemplate[1] EXCEPT !.nodes = r.nodes]],
               thrown |-> r.thrown,
               calls |-> 1 + r.calls]

UncheckedEach(state, nodes, i, usedInstances, stack) ==
    IF i > Len(nodes)
    THEN [errors |-> <<>>, usedInstances |-> usedInstances, nodes |-> nodes,
          thrown |-> FALSE, calls |-> 0]
    ELSE LET r == UncheckedLoad(state, nodes[i], usedInstances, stack) IN
         IF r.thrown
         THEN [errors |-> r.errors, usedInstances |-> r.usedInstances,
               nodes |-> nodes, thrown |-> TRUE, calls |-> r.calls]
         ELSE LET rest == UncheckedEach(state, [nodes EXCEPT ![i] = r.node], i + 1,
                                        r.usedInstances, stack) IN
              [rest EXCEPT !.errors = r.errors \o rest.errors, !.calls = r.calls + @]

recurrentSubgraphLoadUnchecked(state, node, usedInstances) ==
    UncheckedLoad(state, node, usedInstances, MaxStack)

\* recurrentSubgraphLoad(node), with the set usedInstances it shares between
\* its calls: the errors, the set afterwards, the node with its graphState,
\* whether a TypeError was raised, and the number of calls of
\* recurrentSubgraphLoad that were made.
RECURSIVE recurrentSubgraphLoad(_, _, _)
RECURSIVE LoadEach(_, _, _, _)
recurrentSubgraphLoad(state, node, usedInstances) ==
    IF node.subgraph = Undefined
    THEN [errors |-> <<>>, usedInstances |-> usedInstances, node |-> node,
          thrown |-> FALSE, calls |-> 1]
    ELSE IF state.subgraphs = UndefinedList
    THEN [errors |-> <<>>, usedInstances |-> usedInstances, node |-> node,
          thrown |-> TRUE, calls |-> 1]
    ELSE LET fittingTemplate == Fitting(state.subgraphs, node.subgraph) IN
         IF Len(fittingTemplate) # 1
         THEN [errors |-> <<ErrTemplateCount(node.name, Len(fittingTemplate))>>,
               usedInstances |-> usedInstances, node |-> node,
               thrown |-> FALSE, calls |-> 1]
         ELSE IF node.subgraph \in usedInstances
         THEN [errors |-> <<ErrMultipleNodes(node.subgraph)>>,
               usedInstances |-> usedInstances, node |-> node,
               thrown |-> FALSE, calls |-> 1]
         ELSE LET r == LoadEach(state, fittingTemplate[1].nodes, 1,
                                usedInstances \cup {node.subgraph}) IN
              [errors |-> r.errors,
               usedInstances |-> r.usedInstances,
               node |-> [node EXCEPT !.graphState =
                            [fittingTemplate[1] EXCEPT !.nodes = r.nodes]],
               thrown |-> r.thrown,
               calls |-> 1 + r.calls]

\* nodes.forEach((n) => errors.push(...recurrentSubgraphLoad(n))), from index i.
LoadEach(state, nodes, i, usedInstances) ==
    IF i > Len(nodes)
    THEN [errors |-> <<>>, usedInstances |-> usedInstances, nodes |-> nodes,
          thrown |-> FALSE, calls |-> 0]
    ELSE LET r == recurrentSubgraphLoad(state, nodes[i], usedInstances) IN
         IF r.thrown
         THEN [errors |-> r.errors, usedInstances |-> r.usedInstances,
               nodes |-> nodes, thrown |-> TRUE, calls |-> r.calls]
         ELSE LET rest == LoadEach(state, [nodes EXCEPT ![i] = r.node], i + 1,
                                   r.usedInstances) IN
              [rest EXCEPT !.errors = r.errors \o rest.errors, !.calls = r.calls + @]

Range(seq) == { seq[i] : i \in 1..Len(seq) }

\* The ids that some node of some template references (usedSubgraphs).
UsedSubgraphs(state) ==
    UNION { { n.subgraph : n \in Range(subgraph.nodes) } : subgraph \in Range(state.subgraphs) }
        \ {Undefined}

\* Array.find: the first element of `list` satisfying Test, or `undefined`.
Find(list, Test(_)) ==
    LET hits == SelectSeq(list, Test) IN
    IF hits = <<>> THEN UndefinedObj ELSE hits[1]

\* The root graph of a multi-graph document: the first template no node references.
RootGraph(state) ==
    LET used == UsedSubgraphs(state)
        Unreferenced(subgraph) == subgraph.id \notin used
    IN Find(state.subgraphs, Unreferenced)

\* The entry graph of a multi-graph document.
EntryGraph(state) ==
    LET IsEntry(subgraph) == subgraph.id = state.graph.entryGraph
    IN Find(state.subgraphs, IsEntry)


(***************************************************************************)
(* Graph objects                                                           *)
(*                                                                         *)
(* The editor's graph objects live in a heap indexed by Keys.  A node that *)
(* owns a subgraph holds the key of its subgraph object.  An editor value  *)
(* `e` is the record of the editor's fields; a raised exception is the     *)
(* field `thrown`.                                                         *)
(*                                                                         *)
(* A node keeps its interfaces in `inputs` and `outputs`, each an object   *)
(* in insertion order: a sequence of interfaces with the key they were     *)
(* added under.  A graph keeps its boundary nodes in `boundary`; its       *)
(* `inputs` and `outputs` are recomputed from them before every read, so   *)
(* they are computed where they are read.  The documents of this model     *)
(* carry no interfaces, so a loaded graph starts without any.              *)
(***************************************************************************)

EmptyGraph ==
    [id |-> Undefined, name |-> Undefined, nodes |-> <<>>, connections |-> <<>>,
     panning |-> Undefined, scaling |-> Undefined,
     boundary |-> <<>>]

Live(heap) == { k \in Keys : heap[k] # UndefinedObj }

FreeKeys(heap) == Keys \ Live(heap)

FreeKey(heap) == CHOOSE k \in FreeKeys(heap) : \A j \in FreeKeys(heap) : k <= j

\* The keys of the subgraph objects of the nodes of graph k.
Children(heap, k) ==
    IF k \in Live(heap)
    THEN { n.subgraph : n \in Range(heap[k].nodes) } \ {NoGraph}
    ELSE {}

RECURSIVE Descendants(_, _, _)
Descendants(heap, ks, seen) ==
    IF ks \subseteq seen THEN seen
    ELSE Descendants(heap, UNION { Children(heap, k) : k \in ks }, seen \cup ks)

RemoveKeys(seq, ks) == LET Keep(k) == k \notin ks IN SelectSeq(seq, Keep)

\* Graph.destroy for the subgraphs below graph k, then the removal of k's
\* nodes and connections: the objects are dropped and unregistered.
RemoveAll(e, k) ==
    LET gone == Descendants(e.heap, Children(e.heap, k), {}) IN
    [e EXCEPT !.heap = [j \in Keys |->
                          IF j \in gone THEN UndefinedObj
                          ELSE IF j = k THEN [e.heap[k] EXCEPT !.nodes = <<>>,
                                                              !.connections = <<>>]
                          ELSE e.heap[j]],
              !.graphs = RemoveKeys(e.graphs, gone)]

\* Objects that no field of the editor reaches any more are dropped. A frame
\* of the navigation stack holds a node, and with it the graph the node is in.
Collect(e) ==
    LET nodes == { f.subgraphNode : f \in Range(e.subgraphStack) }
        owners == { k \in Live(e.heap) : Children(e.heap, k) \cap nodes # {} }
        roots == ({e.graph} \cup Range(e.graphs) \cup nodes \cup owners) \ {NoGraph}
        kept == Descendants(e.heap, roots, {})
    IN [e EXCEPT !.heap = [j \in Keys |-> IF j \in kept THEN e.heap[j] ELSE UndefinedObj]]

\* Graph.load(state) on graph object k: the object takes the state's id, name
\* and view, every node of a registered type is created, and a node with a
\* graphState gets a new, registered subgraph object loaded from it.
RECURSIVE GraphLoad(_, _, _, _)
RECURSIVE GraphLoadNodes(_, _, _, _, _)
GraphLoad(e, k, graphState, nodeTypes) ==
    LET cleared == RemoveAll(e, k)
        start == [cleared EXCEPT !.heap[k] =
                     [id |-> graphState.id, name |-> graphState.name, nodes |-> <<>>,
                      connections |-> graphState.connections,
                      panning |-> graphState.panning, scaling |-> graphState.scaling,
                      boundary |-> <<>>]]
    IN GraphLoadNodes(start, k, graphState.nodes, 1, nodeTypes)

GraphLoadNodes(e, k, nodes, i, nodeTypes) ==
    IF i > Len(nodes) THEN e
    ELSE LET n == nodes[i] IN
         IF n.subgraph = Undefined
         THEN IF n.type \in nodeTypes
              THEN GraphLoadNodes(
                     [e EXCEPT !.heap[k].nodes = Append(@,
                        [id |-> n.id, name |-> n.name, type |-> n.type,
                         subgraph |-> NoGraph, inputs |-> <<>>, outputs |-> <<>>])],
                     k, nodes, i + 1, nodeTypes)
              ELSE GraphLoadNodes(
                     [e EXCEPT !.errors = Append(@, ErrNodeType(n.type))],
                     k, nodes, i + 1, nodeTypes)
         ELSE LET sub == FreeKey(e.heap)
                  made == [e EXCEPT !.heap[sub] = EmptyGraph,
                                    !.graphs = Append(@, sub)]
                  loaded == GraphLoad(made, sub, n.graphState, nodeTypes)
              IN GraphLoadNodes(
                   [loaded EXCEPT !.heap[k].nodes = Append(@,
                      [id |-> n.id, name |-> n.name, type |-> n.type,
                       subgraph |-> sub, inputs |-> <<>>, outputs |-> <<>>])],
                   k, nodes, i + 1, nodeTypes)

\* Graph.save() of graph object k: each subgraph-owning node carries the id
\* of its subgraph as `subgraph` and the saved subgraph as `graphState`.
RECURSIVE GraphSave(_, _)
GraphSave(heap, k) ==
    [id |-> heap[k].id,
     name |-> heap[k].name,
     nodes |-> [i \in 1..Len(heap[k].nodes) |->
                  LET n == heap[k].nodes[i] IN
                  [id |-> n.id, name |-> n.name, type |-> n.type,
                   subgraph |-> IF n.subgraph = NoGraph THEN Undefined
                                ELSE heap[n.subgraph].id,
                   graphState |-> IF n.subgraph = NoGraph THEN UndefinedObj
                                  ELSE GraphSave(heap, n.subgraph)]],
     connections |-> heap[k].connections,
     panning |-> heap[k].panning,
     scaling |-> heap[k].scaling]

\* The number of subgraph objects that loading `graphState` creates.
RECURSIVE CountSubgraphs(_)
RECURSIVE CountSubgraphsFrom(_, _)
CountSubgraphs(graphState) == CountSubgraphsFrom(graphState.nodes, 1)

CountSubgraphsFrom(nodes, i) ==
    IF i > Len(nodes) THEN 0
    ELSE (IF nodes[i].subgraph = Undefined THEN 0
          ELSE 1 + CountSubgraphs(nodes[i].graphState))
         + CountSubgraphsFrom(nodes, i + 1)

(***************************************************************************)
(* Editor operations, as functions of the editor value                     *)
(***************************************************************************)

\* A faulty raise that lets the call return; C14 must tell it from the
\* code's.
Swallow(e) == e

Throw(e) == [e EXCEPT !.thrown = TRUE]

\* A mutation of a graph: the history records it unless its logging is
\* suppressed.
Mutated(e) == IF e.suppressed THEN e ELSE [e EXCEPT !.recorded = TRUE]

\* `after`, with its change of a graph object of `e` handed to the history.
MutatedFrom(e, after) == IF after.heap # e.heap THEN Mutated(after) ELSE after

\* this.readonly (getter): _readonly || preview.
Readonly(e) == e.readonly \/ e.preview

\* [...this.graphs].filter((graph) => graph.id === id)[0]
GraphById(e, id) ==
    LET Test(k) == e.heap[k].id = id
        hits == SelectSeq(e.graphs, Test)
    IN IF hits = <<>> THEN NoGraph ELSE hits[1]

unregisterGraphs(e) ==
    IF e.graph = NoGraph THEN Throw(e)
    ELSE LET Same(k) == e.heap[k].id = e.heap[e.graph].id IN
         [e EXCEPT !.graphs = SelectSeq(e.graphs, Same),
                   !.subgraphStack = <<>>]

cleanEditor(e) ==
    IF e.graph = NoGraph THEN Throw([e EXCEPT !.suppressed = TRUE])
    ELSE [RemoveAll(e, e.graph) EXCEPT !.suppressed = FALSE]

\* A faulty switchGraph that does not suppress the history logging.
switchGraphLogging(e, subgraphNode) ==
    [Mutated(e) EXCEPT !.graph = subgraphNode,
                       !.graphName = e.heap[subgraphNode].name,
                       !.suppressed = FALSE]

\* switchGraph(subgraphNode), to the call of nextTick: the logging is
\* suppressed, propagateInterfaces() brings the boundary nodes of the
\* subgraph in line with the node's interfaces, the subgraph is displayed
\* and the logging is resumed.
switchGraph(e, subgraphNode) ==
    LET propagated == Mutated([e EXCEPT !.suppressed = TRUE]) IN
    [propagated EXCEPT !.graph = subgraphNode,
                       !.graphName = e.heap[subgraphNode].name,
                       !.suppressed = FALSE]

switchToSubgraph(e, subgraphNode) ==
    IF e.graph = NoGraph THEN Throw(e)
    ELSE switchGraph(
           [e EXCEPT !.subgraphStack = Append(@,
              [graphId |-> e.heap[e.graph].id, subgraphNode |-> subgraphNode])],
           subgraphNode)

\* An interface without subgraphNodeId, and one without side position.
NoId == 0

NoPosition == 0

\* The ids of the interfaces and of the connection ends in the heap.
UsedIds(heap) ==
    UNION { UNION { { io.id : io \in Range(n.inputs) \cup Range(n.outputs) } :
                    n \in Range(heap[k].nodes) }
              \cup UNION { {c.from.id, c.to.id} : c \in Range(heap[k].connections) } :
            k \in Live(heap) }

\* The subgraphNodeIds of the boundary nodes and interfaces in the heap.
UsedSubgraphNodeIds(heap) ==
    UNION { { b.subgraphNodeId : b \in Range(heap[k].boundary) }
              \cup UNION { { io.subgraphNodeId :
                              io \in Range(n.inputs) \cup Range(n.outputs) } :
                            n \in Range(heap[k].nodes) } :
            k \in Live(heap) }

\* The id of a new object is one that nothing holds any more.  The id of a
\* new interface is drawn from the ids 10 * s + 1, 10 * s + 2, ... of its
\* subgraphNodeId s, the id of a new boundary node from 1, 2, ...
FreshId(heap, subgraphNodeId) ==
    CHOOSE id \in { 10 * subgraphNodeId + n : n \in 1..9 } :
        /\ id \notin UsedIds(heap)
        /\ \A j \in (10 * subgraphNodeId + 1)..(id - 1) : j \in UsedIds(heap)

FreshSubgraphNodeId(heap) ==
    CHOOSE id \in 1..(Cardinality(UsedSubgraphNodeIds(heap)) + 1) :
        /\ id \notin UsedSubgraphNodeIds(heap)
        /\ \A j \in 1..(id - 1) : j \in UsedSubgraphNodeIds(heap)

\* The places <<k, i>> of the nodes that own subgraph object `sub`.
OwnersOf(heap, sub) ==
    { p \in UNION { {k} \X (1..Len(heap[k].nodes)) : k \in Live(heap) } :
        heap[p[1]].nodes[p[2]].subgraph = sub }

\* graph.updateInterfaces(): the boundary interfaces of graph k, from its
\* boundary nodes.
updateInterfaces(heap, k) ==
    LET In(b) == b.direction = "input"
        Out(b) == b.direction = "output"
    IN [inputs |-> SelectSeq(heap[k].boundary, In),
        outputs |-> SelectSeq(heap[k].boundary, Out)]

\* Two interfaces of one side claim the same side position.
Conflict(list) ==
    \E i, j \in 1..Len(list) :
        /\ i < j
        /\ list[i].sidePosition # NoPosition
        /\ list[i].sidePosition = list[j].sidePosition

\* applySidePositions(inputs, outputs): a list of errors, or the interfaces
\* of both sides.  The position it gives an interface that claims none is
\* not part of this model: an interface of a node carries no position.
applySidePositions(inputs, outputs) ==
    IF Conflict(inputs) \/ Conflict(outputs)
    THEN [errors |-> <<"conflicting side positions">>, inputs |-> <<>>, outputs |-> <<>>]
    ELSE [errors |-> <<>>, inputs |-> inputs, outputs |-> outputs]

\* node.removeInput(key) / node.removeOutput(key) on node i of graph k: the
\* interface stored under `key`, if any, goes, and with it the connections
\* of the node's graph that end at it.
removeInterface(e, k, i, side, key) ==
    LET Hit(io) == io.key = key
        Miss(io) == io.key # key
        found == SelectSeq(e.heap[k].nodes[i][side], Hit)
    IN IF found = <<>> THEN e
       ELSE LET Free(c) == c.from.id # found[1].id /\ c.to.id # found[1].id IN
            [e EXCEPT !.heap[k].connections = SelectSeq(@, Free),
                      !.heap[k].nodes[i][side] = SelectSeq(@, Miss)]

\* node.addInput(key, io) / node.addOutput(key, io): io is stored under
\* `key`, in the place of what was stored under it before.
addInterface(e, k, i, side, key, io) ==
    LET list == e.heap[k].nodes[i][side] IN
    IF \E j \in 1..Len(list) : list[j].key = key
    THEN [e EXCEPT !.heap[k].nodes[i][side] =
            [j \in 1..Len(list) |-> IF list[j].key = key THEN io ELSE list[j]]]
    ELSE [e EXCEPT !.heap[k].nodes[i][side] = Append(@, io)]

\* Object.values(subgraphNode.inputs).forEach: an interface whose
\* subgraphNodeId is not among `ids` is removed by its name.
RECURSIVE RemoveMissing(_, _, _, _, _, _, _)
RemoveMissing(e, k, i, side, values, j, ids) ==
    IF j > Len(values) THEN e
    ELSE RemoveMissing(
           IF values[j].subgraphNodeId \in ids THEN e
           ELSE removeInterface(e, k, i, side, values[j].name),
           k, i, side, values, j + 1, ids)

\* Object.entries(ifaceOrPositionErrors.inputs).forEach: the interface with
\* the entry's subgraphNodeId is updated in place; without one a new
\* interface is added under the entry's name.
RECURSIVE UpdateEach(_, _, _, _, _, _)
UpdateEach(e, k, i, side, entries, j) ==
    IF j > Len(entries) THEN e
    ELSE LET intf == entries[j]
             list == e.heap[k].nodes[i][side]
             hits == { at \in 1..Len(list) : list[at].subgraphNodeId = intf.subgraphNodeId }
             foundIntf == CHOOSE at \in hits : \A other \in hits : at <= other
         IN UpdateEach(
              IF hits = {}
              THEN addInterface(e, k, i, side, intf.name,
                     [key |-> intf.name, id |-> FreshId(e.heap, intf.subgraphNodeId), name |-> intf.name,
                      subgraphNodeId |-> intf.subgraphNodeId])
              ELSE [e EXCEPT !.heap[k].nodes[i][side][foundIntf].name = intf.name],
              k, i, side, entries, j + 1)

\* The update of one side of the subgraph node at <<k, i>>.
UpdateSide(e, k, i, side, entries) ==
    LET ids == { entries[j].subgraphNodeId : j \in 1..Len(entries) }
        removed == RemoveMissing(e, k, i, side, e.heap[k].nodes[i][side], 1, ids)
    IN UpdateEach(removed, k, i, side, entries, 1)

\* "Updating interfaces of a graph node": inputs, then outputs.
UpdateNodeInterfaces(e, subgraphNode, result) ==
    IF OwnersOf(e.heap, subgraphNode) = {} THEN e
    ELSE LET p == CHOOSE q \in OwnersOf(e.heap, subgraphNode) : TRUE
             inputs == UpdateSide(e, p[1], p[2], "inputs", result.inputs)
             outputs == UpdateSide(inputs, p[1], p[2], "outputs", result.outputs)
         IN MutatedFrom(e, outputs)

\* A faulty backFromSubgraph that updates the node's interfaces before it
\* looks at the errors.
backFromSubgraphUpdatingFirst(e) ==
    IF e.subgraphStack = <<>> THEN Throw(e)
    ELSE LET top == e.subgraphStack[Len(e.subgraphStack)]
             popped == [e EXCEPT !.subgraphStack = SubSeq(@, 1, Len(@) - 1),
                                 !.suppressed = TRUE]
             newGraph == GraphById(e, top.graphId)
         IN IF e.graph = NoGraph THEN Throw(popped)
            ELSE LET interfaces == updateInterfaces(e.heap, e.graph)
                     ifaceOrPositionErrors ==
                         applySidePositions(interfaces.inputs, interfaces.outputs)
                     updated == UpdateNodeInterfaces(popped, top.subgraphNode, interfaces)
                 IN IF ifaceOrPositionErrors.errors # <<>> THEN Throw(updated)
                    ELSE IF newGraph = NoGraph
                    THEN Throw([updated EXCEPT !.graph = NoGraph])
                    ELSE [updated EXCEPT !.graph = newGraph,
                                         !.graphName = e.heap[newGraph].name,
                                         !.suppressed = FALSE]

\* backFromSubgraph(): the frame is popped first; the interfaces of the
\* subgraph are recomputed and an error among them is thrown before the
\* node is touched; the node's interfaces are then brought in line with the
\* boundary and the graph of the frame is displayed.
backFromSubgraph(e) ==
    IF e.subgraphStack = <<>> THEN Throw(e)
    ELSE LET top == e.subgraphStack[Len(e.subgraphStack)]
             popped == [e EXCEPT !.subgraphStack = SubSeq(@, 1, Len(@) - 1),
                                 !.suppressed = TRUE]
             newGraph == GraphById(e, top.graphId)
         IN IF e.graph = NoGraph THEN Throw(popped)
            ELSE LET interfaces == updateInterfaces(e.heap, e.graph)
                     ifaceOrPositionErrors ==
                         applySidePositions(interfaces.inputs, interfaces.outputs)
                     updated == UpdateNodeInterfaces(popped, top.subgraphNode,
                                                     ifaceOrPositionErrors)
                 IN IF ifaceOrPositionErrors.errors # <<>> THEN Throw(popped)
                    ELSE IF newGraph = NoGraph
                    THEN Throw([updated EXCEPT !.graph = NoGraph])
                    ELSE [updated EXCEPT !.graph = newGraph,
                                         !.graphName = e.heap[newGraph].name,
                                         !.suppressed = FALSE]

\* The end of a connection at an interface: the ids of the node and of the
\* interface.  NoInterface is the null of findInterface.
Endpoint(nodeId, id) == [nodeId |-> nodeId, id |-> id]

NoInterface == [nodeId |-> 0, id |-> NoId]

\* The node that holds a boundary interface has an id of its own.
BoundaryNodeId(subgraphNodeId) == 200 + subgraphNodeId

\* A faulty findInterface that takes every end for found.
findInterfaceUnchecked(e, nodeId, intfId, subgraphNodeId) == Endpoint(nodeId, intfId)

\* findInterface(nodeId, intfId, subgraphNodeId) on the displayed graph.
findInterface(e, nodeId, intfId, subgraphNodeId) ==
    LET IsNode(n) == n.id = nodeId
        foundNode == Find(e.heap[e.graph].nodes, IsNode)
    IN IF foundNode = UndefinedObj THEN NoInterface
       ELSE LET interfaces == foundNode.inputs \o foundNode.outputs
                ById(intf) == intf.id = intfId
                BySubgraphNodeId(intf) == intf.subgraphNodeId = subgraphNodeId
                foundIntf == Find(interfaces, ById)
            IN IF foundIntf # UndefinedObj THEN Endpoint(nodeId, foundIntf.id)
               ELSE IF subgraphNodeId # NoId /\ Find(interfaces, BySubgraphNodeId) # UndefinedObj
               THEN Endpoint(nodeId, Find(interfaces, BySubgraphNodeId).id)
               ELSE NoInterface

\* graph.removeNode(node) for node i of graph k: the node goes with the
\* connections at its interfaces, and its subgraph is destroyed and
\* unregistered with the subgraphs below it.
removeNode(e, k, i) ==
    LET node == e.heap[k].nodes[i]
        ids == { io.id : io \in Range(node.inputs) \cup Range(node.outputs) }
        Free(c) == c.from.id \notin ids /\ c.to.id \notin ids
        gone == IF node.subgraph = NoGraph THEN {}
                ELSE Descendants(e.heap, {node.subgraph}, {})
    IN [e EXCEPT !.heap = [j \in Keys |->
                             IF j \in gone THEN UndefinedObj
                             ELSE IF j = k
                             THEN [e.heap[k] EXCEPT
                                     !.nodes = SubSeq(@, 1, i - 1) \o SubSeq(@, i + 1, Len(@)),
                                     !.connections = SelectSeq(@, Free)]
                             ELSE e.heap[j]],
                 !.graphs = RemoveKeys(e.graphs, gone)]

\* The first loops of unwrapSubgraph: subgraphNodeToNode, from the id of an
\* interface of the node to the other end of the connection of the subgraph
\* at the boundary interface it stands for.
SubgraphNodeToNode(node, connections) ==
    LET From(id) == LET Test(c) == c.from.id = id IN Find(connections, Test)
        To(id) == LET Test(c) == c.to.id = id IN Find(connections, Test)
        Mapped(list, Hit(_)) ==
            { list[j].id : j \in { j \in 1..Len(list) : Hit(list[j]) } }
        InHit(input) == From(input.subgraphNodeId) # UndefinedObj
                          \/ To(input.subgraphNodeId) # UndefinedObj
        OutHit(output) == To(output.subgraphNodeId) # UndefinedObj
        InTarget(input) == IF From(input.subgraphNodeId) # UndefinedObj
                           THEN From(input.subgraphNodeId).to
                           ELSE To(input.subgraphNodeId).from
        OutTarget(output) == To(output.subgraphNodeId).from
        ins == Mapped(node.inputs, InHit)
        outs == Mapped(node.outputs, OutHit)
        Of(list, id) == LET Test(io) == io.id = id IN Find(list, Test)
    IN [id \in ins \cup outs |->
          IF id \in outs THEN OutTarget(Of(node.outputs, id))
          ELSE InTarget(Of(node.inputs, id))]

\* The last loop of unwrapSubgraph: every connection whose two ends, taken
\* through subgraphNodeToNode, are found in the displayed graph is added.
\* No interface of this model is named 'Connection', the name the loop skips.
RECURSIVE Reconnect(_, _, _, _)
Reconnect(e, connections, j, subgraphNodeToNode) ==
    IF j > Len(connections) THEN e
    ELSE LET connection == connections[j]
             connectionFrom == IF connection.from.id \in DOMAIN subgraphNodeToNode
                               THEN subgraphNodeToNode[connection.from.id]
                               ELSE connection.from
             connectionTo == IF connection.to.id \in DOMAIN subgraphNodeToNode
                             THEN subgraphNodeToNode[connection.to.id]
                             ELSE connection.to
             foundFrom == findInterface(e, connectionFrom.nodeId, connectionFrom.id, NoId)
             foundTo == findInterface(e, connectionTo.nodeId, connectionTo.id, NoId)
         IN Reconnect(
              IF foundFrom # NoInterface /\ foundTo # NoInterface
              THEN [e EXCEPT !.heap[e.graph].connections =
                      Append(@, [from |-> foundFrom, to |-> foundTo])]
              ELSE e,
              connections, j + 1, subgraphNodeToNode)

\* unwrapSubgraph without its call of removeNode.
unwrapSubgraphKeepingNode(e, i) ==
    LET node == e.heap[e.graph].nodes[i]
        subgraph == e.heap[node.subgraph]
        subgraphNodeToNode == SubgraphNodeToNode(node, subgraph.connections)
        added == [e EXCEPT !.heap[e.graph].nodes = @ \o subgraph.nodes]
        Touches(c) == c.from.nodeId = node.id \/ c.to.nodeId = node.id
        subgraphNodeConnections == SelectSeq(e.heap[e.graph].connections, Touches)
    IN Reconnect(added, subgraph.connections \o subgraphNodeConnections, 1,
                 subgraphNodeToNode)

\* A faulty unwrapSubgraph that recreates the connections of the removed
\* node only, and none of the subgraph's own.
unwrapSubgraphOuterOnly(e, i) ==
    LET node == e.heap[e.graph].nodes[i]
        subgraph == e.heap[node.subgraph]
        subgraphNodeToNode == SubgraphNodeToNode(node, subgraph.connections)
        added == [e EXCEPT !.heap[e.graph].nodes = @ \o subgraph.nodes]
        Touches(c) == c.from.nodeId = node.id \/ c.to.nodeId = node.id
        subgraphNodeConnections == SelectSeq(e.heap[e.graph].connections, Touches)
        removed == removeNode(added, e.graph, i)
    IN Reconnect(removed, subgraphNodeConnections, 1, subgraphNodeToNode)

\* unwrapSubgraph(node) for node i of the displayed graph.  The nodes of
\* `nodes` are the nodes of no boundary type; positions and the selection
\* are not part of this model.
unwrapSubgraph(e, i) ==
    LET node == e.heap[e.graph].nodes[i]
        subgraph == e.heap[node.subgraph]
        subgraphNodeToNode == SubgraphNodeToNode(node, subgraph.connections)
        added == [e EXCEPT !.heap[e.graph].nodes = @ \o subgraph.nodes]
        Touches(c) == c.from.nodeId = node.id \/ c.to.nodeId = node.id
        subgraphNodeConnections == SelectSeq(e.heap[e.graph].connections, Touches)
        removed == removeNode(added, e.graph, i)
    IN Reconnect(removed, subgraph.connections \o subgraphNodeConnections, 1,
                 subgraphNodeToNode)

\* array.forEach(this.backFromSubgraph.bind(this)) over indices i..n of the
\* array `stack` is bound to: n is the length when forEach started, and an
\* index the array no longer has is skipped.
RECURSIVE BackForEach(_, _, _, _)
BackForEach(e, i, n, onCopy) ==
    IF i > n \/ e.thrown THEN e
    ELSE IF ~onCopy /\ i > Len(e.subgraphStack)
    THEN BackForEach(e, i + 1, n, onCopy)
    ELSE BackForEach(backFromSubgraph(e), i + 1, n, onCopy)

deepCleanEditor(e) ==
    LET back == BackForEach(e, 1, Len(e.subgraphStack), FALSE) IN
    IF back.thrown THEN back
    ELSE LET clean == cleanEditor(back) IN
         IF clean.thrown THEN clean ELSE [clean EXCEPT !.graphName = Undefined]

\* stackCopy.forEach(([_, subgraphNode]) => this.switchToSubgraph(subgraphNode))
RECURSIVE SwitchForEach(_, _, _)
SwitchForEach(e, nodes, i) ==
    IF i > Len(nodes) \/ e.thrown THEN e
    ELSE SwitchForEach(switchToSubgraph(e, nodes[i]), nodes, i + 1)

\* recurrentSubgraphSave over `nodes`: the graphState of every subgraph-owning
\* node, followed by those of its own nodes, each with the graphState fields
\* of its nodes deleted.
\* A faulty `delete node.graphState` that deletes nothing; C12 must tell it
\* from the code's.
KeepNodes(nodes) == nodes

StripNodes(nodes) == [i \in 1..Len(nodes) |-> [nodes[i] EXCEPT !.graphState = UndefinedObj]]

\* A faulty recurrentSubgraphSave that does not descend into the subgraphs
\* it collects; C9 must tell it from the code's.
shallowSubgraphSave(nodes, i) ==
    LET Owns(n) == n.subgraph # Undefined
        owners == SelectSeq(nodes, Owns)
    IN [j \in 1..Len(owners) |-> [owners[j].graphState EXCEPT !.nodes = StripNodes(@)]]

\* A faulty recurrentSubgraphSave that collects nothing; C11 must tell it
\* from the code's.
noSubgraphSave(nodes, i) == <<>>

RECURSIVE recurrentSubgraphSave(_, _)
recurrentSubgraphSave(nodes, i) ==
    IF i > Len(nodes) THEN <<>>
    ELSE (IF nodes[i].subgraph # Undefined
          THEN <<[nodes[i].graphState EXCEPT !.nodes = StripNodes(@)]>>
                 \o recurrentSubgraphSave(nodes[i].graphState.nodes, 1)
          ELSE <<>>)
         \o recurrentSubgraphSave(nodes, i + 1)

\* save(): the editor afterwards and the document returned.
save(e) ==
    IF e.graph = NoGraph THEN [e |-> Throw(e), state |-> UndefinedObj]
    ELSE LET currentGraphId == e.heap[e.graph].id
             stackCopy == e.subgraphStack
             back == BackForEach(e, 1, Len(stackCopy), TRUE)
         IN IF back.thrown THEN [e |-> back, state |-> UndefinedObj]
            ELSE LET graph == GraphSave(back.heap, back.graph)
                     subgraphs == recurrentSubgraphSave(graph.nodes, 1)
                     root == [graph EXCEPT !.nodes = StripNodes(@)]
                     state == IF subgraphs # <<>>
                              THEN [graph |-> [entryGraph |-> currentGraphId],
                                    subgraphs |-> Append(subgraphs, root)]
                              ELSE [graph |-> root, subgraphs |-> UndefinedList]
                     again == SwitchForEach(back,
                                [i \in 1..Len(stackCopy) |-> stackCopy[i].subgraphNode], 1)
                 IN [e |-> again, state |-> IF again.thrown THEN UndefinedObj ELSE state]

\* dfs(subgraph, path) of load: the subgraph-owning nodes that lead from graph
\* k to the graph whose id is `entry`, searched from node i on.
RECURSIVE dfs(_, _, _, _, _)
dfs(heap, k, i, path, entry) ==
    IF i > Len(heap[k].nodes) THEN <<>>
    ELSE LET n == heap[k].nodes[i] IN
         IF n.subgraph = NoGraph THEN dfs(heap, k, i + 1, path, entry)
         ELSE IF heap[n.subgraph].id = entry THEN Append(path, n.subgraph)
         ELSE LET returnedPath == dfs(heap, n.subgraph, 1, Append(path, n.subgraph), entry) IN
              IF returnedPath # <<>> THEN returnedPath
              ELSE dfs(heap, k, i + 1, path, entry)

\* A faulty line 291 under which the errors of Graph.load never end the load;
\* C8 must tell it from the code's.
GraphLoadNeverFails(errors, devMode) == FALSE

\* Line 291: the errors of Graph.load end the load unless the build runs in
\* development mode.
GraphLoadFailed(errors, devMode) == errors # <<>> /\ ~devMode

\* What one call of load has done when it returns or first suspends.
LoadOutcome(e, exit, errors, readonlySetting, view, layout) ==
    [e |-> e, exit |-> exit, errors |-> errors, readonlySetting |-> readonlySetting,
     panning |-> view.panning, scaling |-> view.scaling, layout |-> layout]

NoView == [panning |-> Undefined, scaling |-> Undefined]

\* Lines 270-326 of load: the try block, the error exits and the replay of
\* the path to the entry graph.
LoadGraph(e, state, rootGraph, entryGraph, readonlySetting, nodeTypes, devMode) ==
    LET view == [panning |-> entryGraph.panning, scaling |-> entryGraph.scaling]
        caught == [cleanEditor(e) EXCEPT !.readonly = readonlySetting]
        r == LoadEach(state, rootGraph.nodes, 1, {})
    IN IF NodesOf(rootGraph) = UndefinedList
       THEN LoadOutcome(caught, "caught", <<ErrThrown>>, readonlySetting, NoView, FALSE)
       ELSE IF r.thrown
       THEN LoadOutcome(caught, "caught", <<ErrThrown>>, readonlySetting, view, FALSE)
       ELSE IF r.errors # <<>>
       THEN LoadOutcome(e, "template", r.errors, readonlySetting, view, FALSE)
       ELSE LET instantiated == [rootGraph EXCEPT !.nodes = r.nodes]
                room == Cardinality(FreeKeys(RemoveAll(Collect(e), e.graph).heap))
                loaded == GraphLoad([Collect(e) EXCEPT !.errors = <<>>], e.graph,
                                    instantiated, nodeTypes)
            IN IF CountSubgraphs(instantiated) > room
               THEN LoadOutcome(e, "full", <<>>, readonlySetting, view, FALSE)
               ELSE IF GraphLoadFailed(loaded.errors, devMode)
               THEN LoadOutcome([cleanEditor(loaded) EXCEPT !.readonly = readonlySetting],
                                "graphLoad", loaded.errors, readonlySetting, view, FALSE)
               ELSE LET named == [loaded EXCEPT !.graphName = entryGraph.name,
                                                !.readonly = readonlySetting]
                        path == IF EntryGraphOf(state) # Undefined
                                THEN dfs(named.heap, named.graph, 1, <<>>, EntryGraphOf(state))
                                ELSE <<>>
                    IN LoadOutcome(SwitchForEach(named, path, 1), "pending",
                                   loaded.errors, readonlySetting, view, path # <<>>)

\* load(state) up to its first await or its return.
load(e, state, nodeTypes, devMode) ==
    LET unregistered == unregisterGraphs(e)
        readonlySetting == Readonly(unregistered)
        locked == [unregistered EXCEPT !.readonly = TRUE]
    IN IF unregistered.thrown
       THEN LoadOutcome(unregistered, "rejected", <<>>, readonlySetting, NoView, FALSE)
       ELSE IF state.graph = UndefinedObj
       THEN LoadOutcome(Throw(locked), "rejected", <<>>, readonlySetting, NoView, FALSE)
       ELSE IF EntryGraphOf(state) # Undefined
       THEN IF state.subgraphs = UndefinedList
            THEN LoadOutcome(Throw(locked), "rejected", <<>>, readonlySetting, NoView, FALSE)
            ELSE IF RootGraph(state) = UndefinedObj
            THEN LoadOutcome(locked, "noRoot", <<ErrNoRoot>>, readonlySetting, NoView, FALSE)
            ELSE IF EntryGraph(state) = UndefinedObj
            THEN LoadOutcome(locked, "noEntry", <<ErrNoEntry(state.graph.entryGraph)>>,
                             readonlySetting, NoView, FALSE)
            ELSE LoadGraph(locked, state, RootGraph(state), EntryGraph(state),
                           readonlySetting, nodeTypes, devMode)
       ELSE LoadGraph(locked, state, state.graph, state.graph,
                      readonlySetting, nodeTypes, devMode)

\* EditorManager.loadDataflow(dataflow): the promise of editor.load is
\* returned as it is.  The catch clause sees only what load raises before
\* it returns its promise, and an async function raises nothing then.
loadDataflow(e, dataflow, nodeTypes, devMode) == load(e, dataflow, nodeTypes, devMode)

(***************************************************************************)
(* State                                                                   *)
(***************************************************************************)

VARIABLES
    heap,             \* the graph objects
    _graph,           \* this._graph: key of the active graph, NoGraph when undefined
    graphs,           \* this.graphs: the registered graphs, in registration order
    subgraphStack,    \* this.subgraphStack: frames [graphId, subgraphNode]
    _readonly,        \* this._readonly
    preview,          \* this.preview
    graphName,        \* this.graphName
    suppressed,       \* whether history logging is suppressed
    nodeTypes,        \* the registered plain node types
    specificationLoaded, \* EditorManager.specificationLoaded
    interfacesStyle,  \* number of style sheets with the id interfacesStyleId
    devMode,          \* process.env.VUE_APP_GRAPH_DEVELOPMENT_MODE === 'true'
    process,          \* the run of the validator script, NoProcess without one
    loads,            \* the suspended calls of load
    layouts,          \* the deferred layout callbacks of switchGraph
    dataflow,         \* the document the user holds
    last              \* the most recent call and what it returned

editorVars == <<heap, _graph, graphs, subgraphStack, _readonly, preview, graphName, suppressed>>

vars == <<heap, _graph, graphs, subgraphStack, _readonly, preview, graphName, suppressed,
          nodeTypes, specificationLoaded, interfacesStyle, devMode, process, loads, layouts,
          dataflow, last>>

managerVars == <<nodeTypes, specificationLoaded, interfacesStyle>>

\* The editor value of the current state.
Ed ==
    [heap |-> heap, graph |-> _graph, graphs |-> graphs, subgraphStack |-> subgraphStack,
     readonly |-> _readonly, preview |-> preview, graphName |-> graphName,
     suppressed |-> suppressed, recorded |-> FALSE, errors |-> <<>>, thrown |-> FALSE]

\* The next state's editor fields are those of e.
Becomes(e) ==
    LET c == Collect(e) IN
    /\ heap' = c.heap
    /\ _graph' = c.graph
    /\ graphs' = c.graphs
    /\ subgraphStack' = c.subgraphStack
    /\ _readonly' = c.readonly
    /\ preview' = c.preview
    /\ graphName' = c.graphName
    /\ suppressed' = c.suppressed

Called(op, e) ==
    [op |-> op, exit |-> IF e.thrown THEN "thrown" ELSE "returned",
     recorded |-> e.recorded]

\* The largest number of nodes of a second document loaded over the first.
MaxSecondNodes == 0

SecondDocs ==
    { d \in MultiGraphDocs :
        /\ d.graph.entryGraph = "g1"
        /\ Len(d.subgraphs) <= 1
        /\ CountNodes(d.subgraphs) <= MaxSecondNodes }

\* The editor as constructed.
Constructed ==
    /\ heap = [k \in Keys |-> IF k = 1 THEN EmptyGraph ELSE UndefinedObj]
    /\ _graph = 1
    /\ graphs = <<1>>
    /\ subgraphStack = <<>>
    /\ _readonly = FALSE
    /\ preview = FALSE
    /\ graphName = Undefined
    /\ suppressed = FALSE
    /\ loads = <<>>
    /\ last = [op |-> "new", exit |-> "returned"]

\* Documents whose templates form one chain of nested subgraphs, each with
\* an id of its own.
NestedDocs ==
    { d \in MultiGraphDocs :
        /\ Len(d.subgraphs) = Cardinality(TemplateIds)
        /\ Cardinality(UsedSubgraphs(d)) = Cardinality(TemplateIds) - 1
        /\ \A i \in 1..Len(d.subgraphs) : Len(d.subgraphs[i].nodes) <= 1
        /\ \A i \in 1..Len(d.subgraphs) :
              \A j \in 1..Len(d.subgraphs[i].nodes) :
                 d.subgraphs[i].nodes[j].subgraph \in
                     {d.subgraphs[k].id : k \in (i + 1)..Len(d.subgraphs)} }

Init ==
    /\ Constructed
    /\ nodeTypes = {"A"}
    /\ specificationLoaded = TRUE
    /\ interfacesStyle = 0
    /\ process = NoProcess
    /\ layouts = <<>>
    /\ devMode = FALSE
    /\ dataflow \in NestedDocs

CodecInit ==
    /\ Constructed
    /\ nodeTypes \in {{}, {"A"}}
    /\ specificationLoaded = TRUE
    /\ interfacesStyle = 0
    /\ process = NoProcess
    /\ layouts = <<>>
    /\ devMode \in BOOLEAN
    /\ dataflow \in Dataflows

\* The largest number of boundary nodes of a subgraph.
MaxBoundary == 2

InterfaceNames == {"x", "y"}

SidePositions == {NoPosition, 1}

\* The largest subgraphNodeId in use.
MaxIds == 2

\* The largest number of connections of a graph.
MaxConnections == 2

Interface(key, id, name) ==
    [key |-> key, id |-> id, name |-> name, subgraphNodeId |-> NoId]

\* The editor with a root graph g1 of a source node and a node that owns the
\* subgraph g2; the subgraph has no boundary yet.
InterfaceInit ==
    /\ heap = [k \in Keys |->
                 IF k = 1
                 THEN [EmptyGraph EXCEPT
                         !.id = "g1", !.name = "g1",
                         !.nodes = <<[id |-> 11, name |-> "n11", type |-> "A",
                                      subgraph |-> NoGraph, inputs |-> <<>>,
                                      outputs |-> <<Interface("out", 101, "out")>>],
                                     [id |-> 12, name |-> "n12", type |-> "graph",
                                      subgraph |-> 2, inputs |-> <<>>, outputs |-> <<>>]>>]
                 ELSE IF k = 2 THEN [EmptyGraph EXCEPT !.id = "g2", !.name = "g2"]
                 ELSE UndefinedObj]
    /\ _graph = 1
    /\ graphs = <<1, 2>>
    /\ subgraphStack = <<>>
    /\ _readonly = FALSE
    /\ preview = FALSE
    /\ graphName = "g1"
    /\ suppressed = FALSE
    /\ loads = <<>>
    /\ last = [op |-> "load", exit |-> "returned", recorded |-> FALSE]
    /\ nodeTypes = {"A"}
    /\ specificationLoaded = TRUE
    /\ interfacesStyle = 0
    /\ process = NoProcess
    /\ layouts = <<>>
    /\ devMode = FALSE
    /\ dataflow = UndefinedObj

\* The contents of a subgraph g2 to inline: a boundary input "x" and a
\* boundary output "y", each present or not, a node n21 or none, and any of
\* the connections between them.
InlineBoundaries ==
    LET x == [subgraphNodeId |-> 1, name |-> "x", direction |-> "input",
              sidePosition |-> NoPosition]
        y == [subgraphNodeId |-> 2, name |-> "y", direction |-> "output",
              sidePosition |-> NoPosition]
    IN {<<>>, <<x>>, <<y>>, <<x, y>>}

InlineNodes ==
    LET n21 == [id |-> 21, name |-> "n21", type |-> "A", subgraph |-> NoGraph,
                inputs |-> <<Interface("in", 103, "in")>>,
                outputs |-> <<Interface("out", 104, "out")>>]
        n22 == [id |-> 22, name |-> "n22", type |-> "A", subgraph |-> NoGraph,
                inputs |-> <<Interface("in", 105, "in")>>,
                outputs |-> <<>>]
    IN {<<>>, <<n21>>, <<n21, n22>>}

InlineConnections(boundary, nodes) ==
    LET x == Endpoint(BoundaryNodeId(1), 1)
        y == Endpoint(BoundaryNodeId(2), 2)
        HasX == \E b \in Range(boundary) : b.subgraphNodeId = 1
        HasY == \E b \in Range(boundary) : b.subgraphNodeId = 2
        through == IF HasX /\ HasY THEN {<<[from |-> x, to |-> y]>>} ELSE {}
        into == IF HasX /\ nodes # <<>>
                THEN {<<[from |-> x, to |-> Endpoint(21, 103)]>>} ELSE {}
        outOf == IF HasY /\ nodes # <<>>
                 THEN {<<[from |-> Endpoint(21, 104), to |-> y]>>} ELSE {}
        inner == IF Len(nodes) = 2
                 THEN {<<[from |-> Endpoint(21, 104), to |-> Endpoint(22, 105)]>>}
                 ELSE {}
    IN { a \o b \o c \o d : a \in through \cup {<<>>}, b \in into \cup {<<>>},
                             c \in outOf \cup {<<>>}, d \in inner \cup {<<>>} }

\* The editor with a root graph g1 of a source node, a node that owns the
\* subgraph g2 and a sink node.  The interfaces of the owning node are those
\* that backFromSubgraph gives it for the boundary of g2.
InlineHeap(boundary, nodes, connections) ==
    LET base == [k \in Keys |->
                   IF k = 1
                   THEN [EmptyGraph EXCEPT
                           !.id = "g1", !.name = "g1",
                           !.nodes = <<[id |-> 11, name |-> "n11", type |-> "A",
                                        subgraph |-> NoGraph, inputs |-> <<>>,
                                        outputs |-> <<Interface("out", 101, "out")>>],
                                       [id |-> 12, name |-> "n12", type |-> "graph",
                                        subgraph |-> 2, inputs |-> <<>>, outputs |-> <<>>],
                                       [id |-> 13, name |-> "n13", type |-> "A",
                                        subgraph |-> NoGraph,
                                        inputs |-> <<Interface("in", 102, "in")>>,
                                        outputs |-> <<>>]>>]
                   ELSE IF k = 2
                   THEN [EmptyGraph EXCEPT !.id = "g2", !.name = "g2",
                           !.boundary = boundary, !.nodes = nodes,
                           !.connections = connections]
                   ELSE UndefinedObj]
    IN UpdateNodeInterfaces([heap |-> base, suppressed |-> TRUE], 2,
                            updateInterfaces(base, 2)).heap

InlineInit ==
    /\ \E boundary \in InlineBoundaries, nodes \in InlineNodes :
         \E connections \in InlineConnections(boundary, nodes) :
            heap = InlineHeap(boundary, nodes, connections)
    /\ _graph = 1
    /\ graphs = <<1, 2>>
    /\ subgraphStack = <<>>
    /\ _readonly = FALSE
    /\ preview = FALSE
    /\ graphName = "g1"
    /\ suppressed = FALSE
    /\ loads = <<>>
    /\ last = [op |-> "load", exit |-> "returned", recorded |-> FALSE]
    /\ nodeTypes = {"A"}
    /\ specificationLoaded = TRUE
    /\ interfacesStyle = 0
    /\ process = NoProcess
    /\ layouts = <<>>
    /\ devMode = FALSE
    /\ dataflow = UndefinedObj

(***************************************************************************)
(* Actions                                                                 *)
(***************************************************************************)

Remove(seq, i) == SubSeq(seq, 1, i - 1) \o SubSeq(seq, i + 1, Len(seq))

NodeIds(e) == [i \in 1..Len(e.heap[e.graph].nodes) |-> e.heap[e.graph].nodes[i].id]

\* The editor and the caller after load has returned or first suspended
\* with `out`; at most `limit` calls of load are suspended at a time.
Loaded(limit, state, layoutActive, out) ==
    /\ out.exit # "full"
    /\ out.exit = "pending" => Len(loads) < limit
    /\ Becomes(out.e)
    /\ loads' = IF out.exit = "pending"
                THEN Append(loads,
                       [pc |-> IF layoutActive THEN "tick1" ELSE "tick2",
                        state |-> state,
                        errors |-> out.errors,
                        readonlySetting |-> out.readonlySetting,
                        panning |-> out.panning, scaling |-> out.scaling,
                        layout |-> out.layout,
                        nodes |-> <<>>])
                ELSE loads
    /\ last' = [op |-> "load", exit |-> out.exit, state |-> state, errors |-> out.errors,
                readonlySetting |-> out.readonlySetting, layout |-> out.layout,
                view |-> "none", recorded |-> out.e.recorded]
    /\ UNCHANGED <<managerVars, devMode, process, layouts, dataflow>>

\* A call of loadDataflow(state), to the return of load or its first await.  `layoutActive`
\* is layoutManager.layoutEngine.activeAlgorithm !== 'NoLayout'.
Load(state, layoutActive) ==
    Loaded(MaxLoads, state, layoutActive, loadDataflow(Ed, state, nodeTypes, devMode))

Settled(f, exit) ==
    [op |-> "load", exit |-> exit, state |-> f.state, errors |-> f.errors,
     readonlySetting |-> f.readonlySetting, layout |-> f.layout, view |-> "none",
     recorded |-> FALSE]

\* Line 330 after the first nextTick: applyAutolayout(false) saves the active
\* graph and asks the layout manager for its layout.
LoadApplyAutolayout(i) ==
    /\ i \in 1..Len(loads)
    /\ loads[i].pc = "tick1"
    /\ IF _graph = NoGraph
       THEN /\ loads' = Remove(loads, i)
            /\ last' = Settled(loads[i], "rejected")
       ELSE /\ loads' = [loads EXCEPT ![i].pc = "layout", ![i].layout = TRUE,
                                      ![i].nodes = NodeIds(Ed)]
            /\ last' = Settled(loads'[i], "pending")
    /\ UNCHANGED <<editorVars, managerVars, devMode, process, layouts, dataflow>>

\* The layout arrives: updateNodesPosition assigns to the node of the active
\* graph with each returned id, and raises when there is none.
LoadLayoutComputed(i) ==
    /\ i \in 1..Len(loads)
    /\ loads[i].pc = "layout"
    /\ IF _graph = NoGraph \/ ~(Range(loads[i].nodes) \subseteq Range(NodeIds(Ed)))
       THEN /\ loads' = Remove(loads, i)
            /\ last' = Settled(loads[i], "rejected")
       ELSE /\ loads' = [loads EXCEPT ![i].pc = "tick2"]
            /\ last' = Settled(loads[i], "pending")
    /\ UNCHANGED <<editorVars, managerVars, devMode, process, layouts, dataflow>>

\* centerZoom() in a browser: without nodes nothing happens, else the view is
\* fitted to the graph.  The fitted transform is a function of the rendered
\* nodes and is not kept in the state: the call is what is recorded.
centerZoom(e) ==
    IF e.heap[e.graph].nodes = <<>> THEN "none" ELSE "centered"

\* Lines 334-344: after the last nextTick the saved view is restored or the
\* view is centred, and load returns its errors.
LoadFinish(i) ==
    /\ i \in 1..Len(loads)
    /\ loads[i].pc = "tick2"
    /\ loads' = Remove(loads, i)
    /\ IF _graph = NoGraph
       THEN /\ last' = Settled(loads[i], "rejected")
            /\ UNCHANGED editorVars
       ELSE LET f == loads[i]
                panned == IF f.panning # Undefined
                          THEN [Ed EXCEPT !.heap[_graph].panning = f.panning] ELSE Ed
                scaled == IF f.scaling # Undefined
                          THEN [panned EXCEPT !.heap[_graph].scaling = f.scaling] ELSE panned
            IN /\ Becomes(scaled)
               /\ last' = [Settled(f, "returned") EXCEPT !.view =
                             IF f.scaling = Undefined /\ f.panning = Undefined
                             THEN centerZoom(scaled) ELSE "restored"]
    /\ UNCHANGED <<managerVars, devMode, process, layouts, dataflow>>

\* The editor and the caller after save() has ended with `out`.
Saved(out) ==
    /\ Becomes([out.e EXCEPT !.thrown = FALSE])
    /\ last' = [op |-> "save", exit |-> IF out.e.thrown THEN "thrown" ELSE "returned",
                state |-> out.state, recorded |-> out.e.recorded]
    /\ UNCHANGED <<managerVars, devMode, process, layouts, loads, dataflow>>

\* A call of save().
Save == Saved(save(Ed))

Call(op, e) ==
    /\ Becomes(e)
    /\ last' = Called(op, e)
    /\ UNCHANGED <<managerVars, devMode, process, layouts, loads, dataflow>>

SwitchToSubgraph(subgraphNode) ==
    /\ subgraphNode \in Children(heap, _graph)
    /\ Call("switchToSubgraph", switchToSubgraph(Ed, subgraphNode))

BackFromSubgraph == Call("backFromSubgraph", backFromSubgraph(Ed))

CleanEditor == Call("cleanEditor", cleanEditor(Ed))

DeepCleanEditor == Call("deepCleanEditor", deepCleanEditor(Ed))

UnregisterGraphs == Call("unregisterGraphs", unregisterGraphs(Ed))

\* The user's edits of the displayed subgraph: boundary nodes are added,
\* removed, renamed and moved to the other side.  No edit gives two boundary
\* nodes of one side the same name.
InSubgraph == _graph # NoGraph /\ OwnersOf(heap, _graph) # {}

NameTaken(name, direction) ==
    \E b \in Range(heap[_graph].boundary) : b.name = name /\ b.direction = direction

Opposite(direction) == IF direction = "input" THEN "output" ELSE "input"

AddBoundary(name, direction, sidePosition) ==
    /\ InSubgraph
    /\ Len(heap[_graph].boundary) < MaxBoundary
    /\ FreshSubgraphNodeId(heap) <= MaxIds
    /\ ~NameTaken(name, direction)
    /\ Call("edit",
            [Mutated(Ed) EXCEPT !.heap[_graph].boundary = Append(@,
               [subgraphNodeId |-> FreshSubgraphNodeId(heap), name |-> name,
                direction |-> direction, sidePosition |-> sidePosition])])

RemoveBoundary(j) ==
    /\ InSubgraph
    /\ j \in 1..Len(heap[_graph].boundary)
    /\ Call("edit", [Mutated(Ed) EXCEPT !.heap[_graph].boundary = Remove(@, j)])

RenameBoundary(j, name) ==
    /\ InSubgraph
    /\ j \in 1..Len(heap[_graph].boundary)
    /\ ~NameTaken(name, heap[_graph].boundary[j].direction)
    /\ Call("edit", [Mutated(Ed) EXCEPT !.heap[_graph].boundary[j].name = name])

MoveBoundary(j) ==
    /\ InSubgraph
    /\ j \in 1..Len(heap[_graph].boundary)
    /\ ~NameTaken(heap[_graph].boundary[j].name,
                  Opposite(heap[_graph].boundary[j].direction))
    /\ Call("edit", [Mutated(Ed) EXCEPT !.heap[_graph].boundary[j].direction = Opposite(@)])

\* graph.addConnection(from, to) in the displayed graph, from an output of
\* node i to an input of node j.
AddConnection(i, j, from, to) ==
    /\ _graph # NoGraph
    /\ i \in 1..Len(heap[_graph].nodes) /\ j \in 1..Len(heap[_graph].nodes)
    /\ i # j
    /\ Len(heap[_graph].connections) < MaxConnections
    /\ from \in 1..Len(heap[_graph].nodes[i].outputs)
    /\ to \in 1..Len(heap[_graph].nodes[j].inputs)
    /\ LET c == [from |-> [nodeId |-> heap[_graph].nodes[i].id,
                           id |-> heap[_graph].nodes[i].outputs[from].id],
                 to |-> [nodeId |-> heap[_graph].nodes[j].id,
                         id |-> heap[_graph].nodes[j].inputs[to].id]]
       IN /\ c \notin Range(heap[_graph].connections)
          /\ Call("addConnection", [Ed EXCEPT !.heap[_graph].connections = Append(@, c)])

\* unwrapSubgraph(node) for a subgraph-owning node i of the displayed graph.
UnwrapSubgraph(i) ==
    /\ _graph # NoGraph
    /\ i \in 1..Len(heap[_graph].nodes)
    /\ heap[_graph].nodes[i].subgraph # NoGraph
    /\ Becomes(unwrapSubgraph(Ed, i))
    /\ last' = [op |-> "unwrapSubgraph", exit |-> "returned",
                node |-> heap[_graph].nodes[i].id]
    /\ UNCHANGED <<managerVars, devMode, process, layouts, loads, dataflow>>

\* Connecting a subgraph-owning node in its graph and inlining it.
InlineNext ==
    \/ \E i, j \in 1..4, from, to \in 1..2 : AddConnection(i, j, from, to)
    \/ \E i \in 1..3 : UnwrapSubgraph(i)

InlineSpec == InlineInit /\ [][InlineNext]_vars

\* Entering and leaving a subgraph whose boundary the user edits.
InterfaceNext ==
    \/ \E subgraphNode \in Keys : SwitchToSubgraph(subgraphNode)
    \/ BackFromSubgraph
    \/ \E name \in InterfaceNames, direction \in {"input", "output"},
          sidePosition \in SidePositions : AddBoundary(name, direction, sidePosition)
    \/ \E j \in 1..MaxBoundary : RemoveBoundary(j)
    \/ \E j \in 1..MaxBoundary, name \in InterfaceNames : RenameBoundary(j, name)
    \/ \E j \in 1..MaxBoundary : MoveBoundary(j)

InterfaceSpec == InterfaceInit /\ [][InterfaceNext]_vars

\* Every operation of the editor, on a nested document.
Next ==
    \/ \E state \in {dataflow} \cup SecondDocs, layoutActive \in BOOLEAN :
          Load(state, layoutActive)
    \/ \E i \in 1..MaxLoads : LoadApplyAutolayout(i)
    \/ \E i \in 1..MaxLoads : LoadLayoutComputed(i)
    \/ \E i \in 1..MaxLoads : LoadFinish(i)
    \/ Save
    \/ \E subgraphNode \in Keys : SwitchToSubgraph(subgraphNode)
    \/ BackFromSubgraph
    \/ CleanEditor
    \/ DeepCleanEditor
    \/ UnregisterGraphs

Spec == Init /\ [][Next]_vars

\* Number of layout callbacks of switchGraph that may be pending at once.
MaxLayouts == 2

\* switchToSubgraph(subgraphNode) with the callback that switchGraph hands
\* to nextTick().then: the callback is pending when the call returns.
EnterSubgraph(subgraphNode) ==
    LET e == switchToSubgraph(Ed, subgraphNode) IN
    /\ subgraphNode \in Children(heap, _graph)
    /\ Len(layouts) < MaxLayouts
    /\ Becomes(e)
    /\ last' = Called("switchToSubgraph", e)
    /\ layouts' = IF e.thrown THEN layouts
                  ELSE Append(layouts, [pc |-> "tick", subgraphNode |-> subgraphNode,
                                        graph |-> NoGraph, nodes |-> <<>>])
    /\ UNCHANGED <<managerVars, devMode, process, loads, dataflow>>

\* The callback of nextTick().then in switchGraph, callbacks running in the
\* order of their calls: this.graph.save() is taken of the graph displayed
\* now and handed to the layout manager.
LayoutRequested(i) ==
    /\ i \in 1..Len(layouts)
    /\ layouts[i].pc = "tick"
    /\ \A j \in 1..(i - 1) : layouts[j].pc # "tick"
    /\ IF _graph = NoGraph
       THEN /\ layouts' = Remove(layouts, i)
            /\ last' = [op |-> "computeLayout", exit |-> "rejected", recorded |-> FALSE]
       ELSE /\ layouts' = [layouts EXCEPT ![i].pc = "layout", ![i].graph = _graph,
                                          ![i].nodes = NodeIds(Ed)]
            /\ last' = [op |-> "computeLayout", exit |-> "pending", recorded |-> FALSE]
    /\ UNCHANGED <<editorVars, managerVars, devMode, process, loads, dataflow>>

\* updateNodesPosition(updatedGraph) for the ids `nodes` of updatedGraph:
\* each is looked up among the nodes of the displayed graph and assigned
\* its position; assigning to the `undefined` of a failed lookup raises.
\* The result names the nodes that were assigned a position.
RECURSIVE updateNodesPosition(_, _, _, _)
updateNodesPosition(e, nodes, i, positioned) ==
    IF i > Len(nodes) THEN [exit |-> "returned", positioned |-> positioned]
    ELSE IF e.graph = NoGraph \/ nodes[i] \notin Range(NodeIds(e))
    THEN [exit |-> "rejected", positioned |-> positioned]
    ELSE updateNodesPosition(e, nodes, i + 1, positioned \cup {nodes[i]})

\* The layout manager delivers a layout: updateNodesPosition runs on it.
LayoutComputed(i) ==
    LET out == updateNodesPosition(Ed, layouts[i].nodes, 1, {}) IN
    /\ i \in 1..Len(layouts)
    /\ layouts[i].pc = "layout"
    /\ layouts' = Remove(layouts, i)
    /\ last' = [op |-> "updateNodesPosition", exit |-> out.exit, recorded |-> FALSE,
                snapshot |-> layouts[i].graph, graph |-> _graph,
                nodes |-> Range(layouts[i].nodes), positioned |-> out.positioned]
    /\ UNCHANGED <<editorVars, managerVars, devMode, process, loads, dataflow>>

\* An editor with three nested graphs: g1 holds a node that owns g2, g2 a
\* node that owns g3, and each graph a node of its own.
LayoutInit ==
    /\ heap = [k \in Keys |->
                 IF k \in 1..3
                 THEN [EmptyGraph EXCEPT
                         !.id = "g" \o ToString(k), !.name = "g" \o ToString(k),
                         !.nodes =
                            <<[id |-> 10 * k + 1, name |-> "n" \o ToString(10 * k + 1),
                               type |-> "A", subgraph |-> NoGraph,
                               inputs |-> <<>>, outputs |-> <<>>]>>
                            \o (IF k < 3
                                THEN <<[id |-> 10 * k + 2,
                                        name |-> "n" \o ToString(10 * k + 2),
                                        type |-> "graph", subgraph |-> k + 1,
                                        inputs |-> <<>>, outputs |-> <<>>]>>
                                ELSE <<>>)]
                 ELSE UndefinedObj]
    /\ _graph = 1
    /\ graphs = <<1, 2, 3>>
    /\ subgraphStack = <<>>
    /\ _readonly = FALSE
    /\ preview = FALSE
    /\ graphName = "g1"
    /\ suppressed = FALSE
    /\ loads = <<>>
    /\ layouts = <<>>
    /\ last = [op |-> "load", exit |-> "returned", recorded |-> FALSE]
    /\ nodeTypes = {"A"}
    /\ specificationLoaded = TRUE
    /\ interfacesStyle = 0
    /\ process = NoProcess
    /\ devMode = FALSE
    /\ dataflow = UndefinedObj

\* Subgraphs are entered and left while the layouts that entering asks for
\* are computed and delivered.
LayoutNext ==
    \/ \E subgraphNode \in Keys : EnterSubgraph(subgraphNode)
    \/ BackFromSubgraph
    \/ \E i \in 1..MaxLayouts : LayoutRequested(i)
    \/ \E i \in 1..MaxLayouts : LayoutComputed(i)

LayoutSpec == LayoutInit /\ [][LayoutNext]_vars

\* Documents are loaded, their subgraphs are entered and left, and boundary
\* interfaces are added to and removed from the displayed subgraph.
HistoryNext ==
    \/ Load(dataflow, FALSE)
    \/ \E i \in 1..MaxLoads : LoadFinish(i)
    \/ \E subgraphNode \in Keys : SwitchToSubgraph(subgraphNode)
    \/ BackFromSubgraph
    \/ \E direction \in {"input", "output"} : AddBoundary("x", direction, NoPosition)
    \/ \E j \in 1..MaxBoundary : RemoveBoundary(j)

HistorySpec == Init /\ [][HistoryNext]_vars

\* Single-graph documents whose one node names the template g1, which no
\* template or two templates of `subgraphs` carry.
UnresolvedDocs ==
    { [graph |-> DocGraph(0, "g0", <<"g1">>), subgraphs |-> l] :
        l \in { <<>>, <<DocGraph(1, "g1", <<>>), DocGraph(2, "g1", <<>>)>> } }

\* A nested document and the documents with an unresolved reference are
\* loaded, in any order, into an editor that is navigated and saved.
ReloadNext ==
    \/ \E state \in {dataflow} \cup UnresolvedDocs : Load(state, FALSE)
    \/ \E i \in 1..MaxLoads : LoadFinish(i)
    \/ \E subgraphNode \in Keys : SwitchToSubgraph(subgraphNode)
    \/ BackFromSubgraph
    \/ Save

ReloadSpec == Init /\ [][ReloadNext]_vars

\* Documents of both forms over the templates g1, g2 and g3, each with one
\* node that references any template or none: the references form chains,
\* cycles through one, two or three templates, and cycles that no node of
\* the root leads to.
CycleTemplates ==
    { <<DocGraph(1, "g1", <<r[1]>>), DocGraph(2, "g2", <<r[2]>>), DocGraph(3, "g3", <<r[3]>>)>> :
        r \in RefSeqs(3) }

CycleDocs ==
    { [graph |-> DocGraph(0, "g0", <<ref>>), subgraphs |-> l] :
        ref \in SubgraphRefs, l \in CycleTemplates }
    \cup { [graph |-> [entryGraph |-> "g1"], subgraphs |-> l] : l \in CycleTemplates }

CycleInit ==
    /\ Constructed
    /\ nodeTypes = {"A"}
    /\ specificationLoaded = TRUE
    /\ interfacesStyle = 0
    /\ process = NoProcess
    /\ layouts = <<>>
    /\ devMode = FALSE
    /\ dataflow \in CycleDocs

\* The document is loaded, again and again.
CycleNext ==
    \/ Load(dataflow, FALSE)
    \/ \E i \in 1..MaxLoads : LoadFinish(i)

CycleSpec == CycleInit /\ [][CycleNext]_vars

\* Number of calls of load that may be suspended at once when loads overlap.
MaxOverlap == 2

\* Single-graph documents g1 and g2 of one plain node each, saved with or
\* without a panning and with or without a scaling of their own.
OverlapDoc(t, gid, panning, scaling) ==
    [graph |-> [DocGraph(t, gid, <<Undefined>>) EXCEPT
                   !.panning = IF panning THEN "panning of " \o gid ELSE Undefined,
                   !.scaling = IF scaling THEN "scaling of " \o gid ELSE Undefined],
     subgraphs |-> UndefinedList]

OverlapDocs ==
    { OverlapDoc(t, IF t = 1 THEN "g1" ELSE "g2", panning, scaling) :
        t \in {1, 2}, panning \in BOOLEAN, scaling \in BOOLEAN }

\* A call of load(state) with no layout algorithm active, possibly while an
\* earlier call is suspended at its nextTick.
LoadOverlapping(state) ==
    Loaded(MaxOverlap, state, FALSE, loadDataflow(Ed, state, nodeTypes, devMode))

OverlapInit ==
    /\ Constructed
    /\ nodeTypes = {"A"}
    /\ specificationLoaded = TRUE
    /\ interfacesStyle = 0
    /\ process = NoProcess
    /\ layouts = <<>>
    /\ devMode = FALSE
    /\ dataflow = OverlapDoc(1, "g1", TRUE, TRUE)

\* Loads are called at any time; the suspended calls resume in the order in
\* which they were suspended, as the callbacks of nextTick do.
OverlapNext ==
    \/ \E state \in OverlapDocs : LoadOverlapping(state)
    \/ LoadFinish(1)

OverlapSpec == OverlapInit /\ [][OverlapNext]_vars

\* The specifications a caller may pass: the names of the node types of
\* `nodes`, and whether `metadata` has `interfaces` and sets `readonly`.
SpecNodeTypes == {"A", "B"}

Specifications ==
    [nodes : SUBSET SpecNodeTypes, interfaces : BOOLEAN, readonly : BOOLEAN]

\* What the schema validator reports for a document that breaks the schema:
\* the path of the offending value, the keyword it breaks and a message,
\* with the allowed values for the keyword `enum`.
SchemaErrors ==
    { [instancePath |-> "/nodes/0", keyword |-> "required",
       message |-> "must have required property 'name'", allowedValues |-> <<>>],
      [instancePath |-> "/metadata/layout", keyword |-> "enum",
       message |-> "must be equal to one of the allowed values",
       allowedValues |-> <<"NoLayout", "CytoscapeEngine">>],
      [instancePath |-> "", keyword |-> "type",
       message |-> "must be object", allowedValues |-> <<>>] }

\* Documents that break the schema, each with what the validator reports
\* for it.
MalformedSpecifications == { [errors |-> <<error>>] : error \in SchemaErrors }

\* validate(specification) of the compiled schema: validate.errors, empty
\* when the document satisfies the schema.
ajvValidate(specification) ==
    IF "errors" \in DOMAIN specification THEN specification.errors ELSE <<>>

\* stringify(values) of ajv for a list of strings.
RECURSIVE Joined(_, _)
Joined(values, i) ==
    IF i > Len(values) THEN ""
    ELSE (IF i > 1 THEN "," ELSE "") \o "\"" \o values[i] \o "\"" \o Joined(values, i + 1)

stringify(values) == "[" \o Joined(values, 1) \o "]"

\* A faulty validateSpecification that reports nothing once a specification
\* is active.
validateSpecificationOnce(m, specification) ==
    LET errors == ajvValidate(specification) IN
    IF m.specificationLoaded THEN <<>>
    ELSE [i \in 1..Len(errors) |->
            "specification" \o errors[i].instancePath \o " " \o errors[i].message]

\* validateSpecification(specification) on the manager m, of which it reads
\* nothing.
validateSpecification(m, specification) ==
    LET errors == ajvValidate(specification)
        path(error) == "specification" \o error.instancePath
    IN [i \in 1..Len(errors) |->
          IF errors[i].keyword = "enum"
          THEN path(errors[i]) \o " " \o errors[i].message \o " - "
                  \o stringify(errors[i].allowedValues)
          ELSE path(errors[i]) \o " " \o errors[i].message]

\* The editor manager as constructed.
NewManager ==
    [e |-> [heap |-> [k \in Keys |-> IF k = 1 THEN EmptyGraph ELSE UndefinedObj],
            graph |-> 1, graphs |-> <<1>>, subgraphStack |-> <<>>,
            readonly |-> FALSE, preview |-> FALSE, graphName |-> Undefined,
            suppressed |-> FALSE, recorded |-> FALSE, errors |-> <<>>,
            thrown |-> FALSE],
     nodeTypes |-> {}, specificationLoaded |-> FALSE, interfacesStyle |-> 0,
     thrown |-> FALSE]

\* The editor manager value of the current state.
Manager ==
    [e |-> Ed, nodeTypes |-> nodeTypes, specificationLoaded |-> specificationLoaded,
     interfacesStyle |-> interfacesStyle, thrown |-> FALSE]

\* removeInterfacesStyle(): the style sheet found by its id is removed.
removeInterfacesStyle(m) ==
    IF m.interfacesStyle > 0 THEN [m EXCEPT !.interfacesStyle = @ - 1] ELSE m

\* updateInterfacesStyle(metadata): a style sheet is appended when the
\* metadata have `interfaces`.
updateInterfacesStyle(m, metadata) ==
    IF metadata.interfaces THEN [m EXCEPT !.interfacesStyle = @ + 1] ELSE m

\* EditorManager.cleanEditor(): the connections and nodes of editor._graph
\* are removed, every node type is unregistered and the style sheet is
\* removed.  Reading the connections of an undefined _graph raises.
managerCleanEditor(m) ==
    IF m.e.graph = NoGraph THEN [m EXCEPT !.thrown = TRUE]
    ELSE removeInterfacesStyle([m EXCEPT !.e = Mutated(RemoveAll(m.e, m.e.graph)),
                                         !.nodeTypes = {}])

\* updateEditorSpecification(dataflowSpecification).  A string has neither
\* `nodes` nor `metadata`, and `'interfaces' in metadata` raises for it.
updateEditorSpecification(m, dataflowSpecification) ==
    IF dataflowSpecification = UndefinedObj THEN m
    ELSE LET cleaned == IF m.specificationLoaded THEN managerCleanEditor(m) ELSE m
             styled == updateInterfacesStyle(cleaned, dataflowSpecification)
         IN IF cleaned.thrown THEN cleaned
            ELSE IF "text" \in DOMAIN dataflowSpecification
            THEN [cleaned EXCEPT !.thrown = TRUE]
            ELSE [styled EXCEPT
                    !.nodeTypes = @ \cup dataflowSpecification.nodes,
                    !.e.readonly = dataflowSpecification.readonly,
                    !.specificationLoaded = TRUE]

UpdateEditorSpecification(dataflowSpecification) ==
    LET m == updateEditorSpecification(Manager, dataflowSpecification) IN
    /\ Becomes(m.e)
    /\ nodeTypes' = m.nodeTypes
    /\ specificationLoaded' = m.specificationLoaded
    /\ interfacesStyle' = m.interfacesStyle
    /\ last' = [op |-> "updateEditorSpecification",
                exit |-> IF m.thrown THEN "thrown" ELSE "returned",
                specification |-> dataflowSpecification]
    /\ UNCHANGED <<devMode, process, layouts, loads, dataflow>>

ValidateSpecification(specification) ==
    /\ last' = [op |-> "validateSpecification", exit |-> "returned",
                errors |-> validateSpecification(Manager, specification)]
    /\ UNCHANGED <<editorVars, managerVars, devMode, process, layouts, loads, dataflow>>

\* buffer.toString() of a file that holds `document` as text: a string.
\* `errors` is what the schema validator reports for a string.
Text(document, errors) == [text |-> document, errors |-> errors]

\* The process ends with the code `code`.
Exited(proc, code) == [proc EXCEPT !.pc = "exited", !.exitCode = code]

\* The code a process ends with when a promise is rejected and nothing
\* handles it.
UnhandledRejection == 1

\* The validator script to its first readFile: parseArgs, the help and the
\* check of the positionals.
validatorMain(proc) ==
    IF proc.help THEN Exited(proc, 0)
    ELSE IF proc.positionals = 0 THEN Exited(proc, 3)
    ELSE [proc EXCEPT !.pc = "readSpecification"]

\* The callback of the second readFile: what loadDataflow returns is
\* awaited and destructured.  load reads state.graph.entryGraph of the
\* string it is given, and the promise it returned is rejected.
dataflowRead(m, proc, state) ==
    Exited(proc, UnhandledRejection)

\* The callback of the first readFile, for the text `spec` of the file.
\* updateEditorSpecification returns nothing, and destructuring `undefined`
\* raises in the async callback.
specificationRead(m, proc, spec) ==
    LET validationError == validateSpecification(m, spec)
        updated == updateEditorSpecification(m, spec)
        returned == Undefined
    IN IF validationError # <<>> THEN Exited(proc, 1)
       ELSE IF updated.thrown \/ returned = Undefined
       THEN Exited(proc, UnhandledRejection)
       ELSE IF proc.positionals >= 2 THEN [proc EXCEPT !.pc = "readDataflow"]
       ELSE Exited(proc, 0)

\* node validator.js [-h] [specification_path [dataflow_path]]
ValidatorMain ==
    /\ process.pc = "main"
    /\ process' = validatorMain(process)
    /\ last' = [op |-> "validator", exit |-> "returned"]
    /\ UNCHANGED <<editorVars, managerVars, devMode, loads, layouts, dataflow>>

\* A file was read and its callback runs.
ValidatorFileRead ==
    /\ process.pc \in {"readSpecification", "readDataflow"}
    /\ process' = IF process.pc = "readSpecification"
                  THEN specificationRead(Manager, process, process.specification)
                  ELSE dataflowRead(Manager, process, dataflow)
    /\ last' = [op |-> "validator", exit |-> "returned"]
    /\ UNCHANGED <<editorVars, managerVars, devMode, loads, layouts, dataflow>>

\* The validator script is started on a new editor manager, with or without
\* -h, with no path, the path of a specification or that and the path of a
\* dataflow.
ValidatorInit ==
    /\ Constructed
    /\ nodeTypes = {}
    /\ specificationLoaded = FALSE
    /\ interfacesStyle = 0
    /\ devMode = FALSE
    /\ dataflow \in NestedDocs \cup MalformedDocs
    /\ layouts = <<>>
    /\ \E help \in BOOLEAN, positionals \in 0..2,
          document \in Specifications \cup MalformedSpecifications,
          errors \in {<<>>} \cup { m.errors : m \in MalformedSpecifications } :
            process = [pc |-> "main", help |-> help, positionals |-> positionals,
                       specification |-> Text(document, errors), exitCode |-> 0]

ValidatorNext == ValidatorMain \/ ValidatorFileRead

ValidatorSpec == ValidatorInit /\ [][ValidatorNext]_vars

\* The editor manager as constructed, with a document the user holds.
ManagerInit ==
    /\ Constructed
    /\ nodeTypes = {}
    /\ specificationLoaded = FALSE
    /\ interfacesStyle = 0
    /\ process = NoProcess
    /\ layouts = <<>>
    /\ devMode = FALSE
    /\ dataflow \in NestedDocs

\* Specifications are applied one after another while documents are loaded
\* and their subgraphs are entered and left.
ManagerNext ==
    \/ \E dataflowSpecification \in Specifications \cup {UndefinedObj} :
          UpdateEditorSpecification(dataflowSpecification)
    \/ \E specification \in Specifications \cup MalformedSpecifications :
          ValidateSpecification(specification)
    \/ Load(dataflow, FALSE)
    \/ \E i \in 1..MaxLoads : LoadFinish(i)
    \/ \E subgraphNode \in Keys : SwitchToSubgraph(subgraphNode)
    \/ BackFromSubgraph

ManagerSpec == ManagerInit /\ [][ManagerNext]_vars

\* Loading and saving alone, on every document.
CodecNext ==
    \/ \E state \in {dataflow}, layoutActive \in BOOLEAN : Load(state, layoutActive)
    \/ \E i \in 1..MaxLoads : LoadApplyAutolayout(i)
    \/ \E i \in 1..MaxLoads : LoadLayoutComputed(i)
    \/ \E i \in 1..MaxLoads : LoadFinish(i)
    \/ Save

CodecSpec == CodecInit /\ [][CodecNext]_vars

(***************************************************************************)
(* Properties                                                              *)
(***************************************************************************)

\* The exits on which load returns a non-empty error list without suspending.
ErrorExits == {"noRoot", "noEntry", "template", "caught", "graphLoad"}

\* The most recent call was load and its promise is fulfilled.
LoadReturned == last.op = "load" /\ last.exit \in ErrorExits \cup {"returned"}

\* The document is of the multi-graph form.
IsMultiGraph(state) ==
    /\ state.graph # UndefinedObj
    /\ EntryGraphOf(state) # Undefined
    /\ state.subgraphs # UndefinedList

\* The graphs a document holds: its single graph, then its templates.
GraphsOf(state) ==
    (IF state.graph # UndefinedObj /\ NodesOf(state.graph) # UndefinedList
     THEN <<state.graph>> ELSE <<>>)
      \o (IF state.subgraphs = UndefinedList THEN <<>> ELSE state.subgraphs)

\* C1: on every exit path of load the read-only flag after load returns
\* equals its value immediately before load was called.
C1_ReadonlyRestored ==
    LoadReturned => Readonly(Ed) = last.readonlySetting

\* C2: while a load is in progress, suspended at the render checkpoint or at
\* the layout computation, the editor is read-only.
C2_ReadonlyWhileLoading ==
    loads # <<>> => Readonly(Ed)

\* The templates of a multi-graph document that no node references.
UnreferencedTemplates(state) ==
    { i \in 1..Len(state.subgraphs) : state.subgraphs[i].id \notin UsedSubgraphs(state) }

\* C3: loading a multi-graph document with zero or with more than one
\* unreferenced template returns a non-empty error list.
C3_RootUniqueness ==
    (/\ LoadReturned
     /\ IsMultiGraph(last.state)
     /\ Repeats(last.state.subgraphs) = 0
     /\ Cardinality(UnreferencedTemplates(last.state)) # 1)
    => last.errors # <<>>

\* The template ids that two distinct nodes of the document carry.
SharedSubgraphIds(state) ==
    LET gs == GraphsOf(state)
        places == { <<g, j>> \in (1..Len(gs)) \X (1..MaxNodes + 1) : j <= Len(gs[g].nodes) }
    IN { gs[p[1]].nodes[p[2]].subgraph : p \in
           { p \in places :
               /\ gs[p[1]].nodes[p[2]].subgraph # Undefined
               /\ \E q \in places :
                    q # p /\ gs[q[1]].nodes[q[2]].subgraph = gs[p[1]].nodes[p[2]].subgraph } }

\* C4: loading a document in which two distinct nodes carry the same
\* subgraph template id returns an error list with an error naming that id.
C4_TemplateUniqueness ==
    (LoadReturned /\ last.exit \notin {"noRoot", "noEntry"}) =>
        \A id \in SharedSubgraphIds(last.state) :
            \E i \in 1..Len(last.errors) : last.errors[i].arg = id

\* C5: for every document, well-formed or not, load and loadDataflow never
\* reject: the caller always obtains the list of errors.
C5_NeverRejects ==
    last.op = "load" => last.exit # "rejected"

\* The empty cleaned state: no frame on the navigation stack, and an active
\* graph without nodes and connections.
Cleaned(e) ==
    /\ e.subgraphStack = <<>>
    /\ e.graph # NoGraph
    /\ e.heap[e.graph].nodes = <<>>
    /\ e.heap[e.graph].connections = <<>>

\* C6: after a load that returns a non-empty error list the graph content,
\* the registered graphs and the navigation stack are those of before the
\* load, or the editor is in the empty cleaned state.
C6_FailedLoadAtomic ==
    [][(last'.op = "load" /\ last'.exit \in ErrorExits) =>
         \/ <<heap, _graph, graphs, subgraphStack>>' = <<heap, _graph, graphs, subgraphStack>>
         \/ Cleaned([heap |-> heap', graph |-> _graph', subgraphStack |-> subgraphStack'])
      ]_vars

\* The graph no node owns and from which the active graph is reached.
RootOf(e) ==
    CHOOSE k \in Live(e.heap) :
        /\ e.graph \in Descendants(e.heap, {k}, {})
        /\ \A j \in Live(e.heap) : k \notin Children(e.heap, j)

\* The navigation stack is the sequence of subgraph-owning nodes that leads
\* from the root graph to the active graph.
StackIsPath(e) ==
    LET stack == e.subgraphStack
        Parent(i) == IF i = 1 THEN RootOf(e) ELSE stack[i - 1].subgraphNode
    IN /\ \A i \in 1..Len(stack) :
            /\ stack[i].subgraphNode \in Children(e.heap, Parent(i))
            /\ stack[i].graphId = e.heap[Parent(i)].id
       /\ e.graph = IF stack = <<>> THEN RootOf(e) ELSE stack[Len(stack)].subgraphNode

\* C7: after a successful load of a multi-graph document the active graph is
\* the graph whose id is graph.entryGraph and the navigation stack is the
\* path from the root graph to it.
C7_EntryGraphActive ==
    (/\ last.op = "load" /\ last.exit = "returned" /\ last.errors = <<>>
     /\ IsMultiGraph(last.state)
     /\ _graph # NoGraph)
    => /\ heap[_graph].id = EntryGraphOf(last.state)
       /\ StackIsPath(Ed)

ValidSingleGraph(state) ==
    /\ state.graph # UndefinedObj
    /\ EntryGraphOf(state) = Undefined
    /\ NodesOf(state.graph) # UndefinedList
    /\ state.subgraphs = UndefinedList
    /\ \A n \in Range(state.graph.nodes) : n.subgraph = Undefined

\* A document of the multi-graph form with exactly one root, an entry graph,
\* every reference matching exactly one template and no template referenced
\* twice.
ValidMultiGraph(state) ==
    /\ IsMultiGraph(state)
    /\ Cardinality(UnreferencedTemplates(state)) = 1
    /\ EntryGraph(state) # UndefinedObj
    /\ \A ref \in UsedSubgraphs(state) : Len(Fitting(state.subgraphs, ref)) = 1
    /\ SharedSubgraphIds(state) = {}

StructurallyValid(state) == ValidSingleGraph(state) \/ ValidMultiGraph(state)

\* The nodes, connections and subgraph tree of the editor, from the root graph.
TreeOf(e) == LET c == Collect(e) IN GraphSave(c.heap, RootOf(c))

\* The most recent call was a load of a structurally valid document that
\* succeeded.
ValidLoaded ==
    /\ last.op = "load" /\ last.exit \in {"pending", "returned"} /\ last.errors = <<>>
    /\ StructurallyValid(last.state)
    /\ _graph # NoGraph

C10_SaveKeepsNavigation ==
    [][last'.op = "save" => (subgraphStack' = subgraphStack /\ _graph' = _graph)]_vars

\* This step is a call of save() that returned its document.
SaveReturns == last'.op = "save" /\ last'.exit = "returned"

\* C11: save() returns the single-graph form, without `subgraphs`, exactly
\* when no node of the graph tree owns a subgraph; otherwise it returns the
\* multi-graph form whose entryGraph is the id of the graph that was active
\* when save was called.
C11_SavedForm ==
    [][SaveReturns =>
         IF CountSubgraphs(TreeOf(Ed)) = 0
         THEN /\ last'.state.subgraphs = UndefinedList
              /\ EntryGraphOf(last'.state) = Undefined
              /\ NodesOf(last'.state.graph) # UndefinedList
         ELSE /\ last'.state.subgraphs # UndefinedList
              /\ EntryGraphOf(last'.state) = heap[_graph].id
      ]_vars

\* save() was called two levels deep and returned the multi-graph form that
\* names the innermost graph.
C11_Witness ==
    /\ last.op = "save" /\ last.exit = "returned"
    /\ Len(subgraphStack) = 2
    /\ last.state.subgraphs # UndefinedList
    /\ EntryGraphOf(last.state) = heap[_graph].id
    /\ heap[_graph].id # heap[RootOf(Ed)].id

\* The most recent call was a save() that returned a multi-graph document.
SavedMultiGraph ==
    /\ last.op = "save" /\ last.exit = "returned"
    /\ last.state.subgraphs # UndefinedList

\* The graph objects of the tree of the editor: the root and every
\* instantiated subgraph.
Instances(e) == Descendants(e.heap, {RootOf(e)}, {})

\* Graph k as a document holds it: saved, its nodes without graphState.
SavedGraph(e, k) ==
    LET g == GraphSave(e.heap, k)
    IN [g EXCEPT !.nodes = [i \in 1..Len(@) |-> [@[i] EXCEPT !.graphState = UndefinedObj]]]

Occurrences(list, x) == Cardinality({ i \in 1..Len(list) : list[i] = x })

\* C12: in every multi-graph document that save() returns, `subgraphs`
\* holds the root graph and every instantiated subgraph of the tree exactly
\* once, and no node of the document carries an embedded graphState.
C12_SubgraphsComplete ==
    SavedMultiGraph =>
        LET subgraphs == last.state.subgraphs
            tree == Instances(Ed)
        IN /\ Len(subgraphs) = Cardinality(tree)
           /\ \A k \in tree :
                Occurrences(subgraphs, SavedGraph(Ed, k))
                  = Cardinality({ j \in tree : SavedGraph(Ed, j) = SavedGraph(Ed, k) })
           /\ \A i \in 1..Len(subgraphs) : \A n \in Range(subgraphs[i].nodes) :
                n.graphState = UndefinedObj
           /\ NodesOf(last.state.graph) = UndefinedList

\* save() returned a document of a tree nested two levels deep.
C12_Witness ==
    /\ SavedMultiGraph
    /\ Len(last.state.subgraphs) >= 3
    /\ \E k \in Instances(Ed) : \E j \in Children(heap, k) : Children(heap, j) # {}

\* C13: in every state between calls the navigation stack is the path from
\* the root graph to the active graph: it is empty exactly when the root is
\* active, the active graph is the subgraph of the node in the top frame and
\* every frame names the graph that was active when it was pushed.
C13_StackMatchesDepth ==
    loads = <<>> => (_graph # NoGraph /\ StackIsPath(Ed))

\* This step is a call of backFromSubgraph with an empty navigation stack.
LeaveAtRoot == subgraphStack = <<>> /\ last'.op = "backFromSubgraph"

\* C14: backFromSubgraph called with an empty navigation stack raises an
\* error and changes nothing: the stack stays empty and the active graph
\* stays the same.
C14_LeaveAtRootRejected ==
    [][LeaveAtRoot =>
         /\ last'.exit = "thrown"
         /\ subgraphStack' = <<>>
         /\ _graph' = _graph
         /\ UNCHANGED editorVars
      ]_vars

\* backFromSubgraph was called while a graph was displayed and the stack
\* was empty.
C14_Witness ==
    /\ last.op = "backFromSubgraph" /\ last.exit = "thrown"
    /\ subgraphStack = <<>>
    /\ _graph # NoGraph /\ heap[_graph].nodes # <<>>
    /\ ~suppressed

\* This step is a call of backFromSubgraph that returned.
LeaveReturns ==
    /\ last'.op = "backFromSubgraph" /\ last'.exit = "returned"
    /\ subgraphStack # <<>>

\* The subgraph object that a call of backFromSubgraph leaves, and its
\* owning node as the call found it and as the call left it.
Left == subgraphStack[Len(subgraphStack)].subgraphNode

OwnerPlace == CHOOSE p \in OwnersOf(heap, Left) : TRUE

OwnerBefore == heap[OwnerPlace[1]].nodes[OwnerPlace[2]]

OwnerAfter == heap'[OwnerPlace[1]].nodes[OwnerPlace[2]]

SubgraphNodeIds(list) == { list[i].subgraphNodeId : i \in 1..Len(list) }

\* C15: after backFromSubgraph returns, the subgraphNodeIds of the owning
\* node's inputs are those of the subgraph's boundary inputs, and the same
\* for the outputs.
C15_BoundaryMatches ==
    [][LeaveReturns =>
         /\ SubgraphNodeIds(OwnerAfter.inputs)
              = SubgraphNodeIds(updateInterfaces(heap', Left).inputs)
         /\ SubgraphNodeIds(OwnerAfter.outputs)
              = SubgraphNodeIds(updateInterfaces(heap', Left).outputs)
      ]_vars

Ids(list) == { list[i].id : i \in 1..Len(list) }

\* The interfaces of `before` whose subgraphNodeId is among those of
\* `boundary` are interfaces of `after`, as the same objects.
Kept(before, after, boundary) ==
    \A i \in 1..Len(before) :
        before[i].subgraphNodeId \in SubgraphNodeIds(boundary)
            => \E j \in 1..Len(after) :
                  /\ after[j].id = before[i].id
                  /\ after[j].subgraphNodeId = before[i].subgraphNodeId

\* C16: on backFromSubgraph every interface of the owning node whose
\* subgraphNodeId is still in the subgraph's boundary set stays on the node
\* as the same object.
C16_InterfacesKept ==
    [][LeaveReturns =>
         /\ Kept(OwnerBefore.inputs, OwnerAfter.inputs,
                 updateInterfaces(heap, Left).inputs)
         /\ Kept(OwnerBefore.outputs, OwnerAfter.outputs,
                 updateInterfaces(heap, Left).outputs)
      ]_vars

\* switchToSubgraph(subgraphNode) immediately followed by backFromSubgraph.
EnterLeave(subgraphNode) == backFromSubgraph(switchToSubgraph(Ed, subgraphNode))

\* C17: for every subgraph-owning node of the displayed graph, entering its
\* subgraph and leaving it at once leaves the interfaces of the node, the
\* navigation stack and the active graph as they were.
C17_EnterLeaveNeutral ==
    _graph # NoGraph =>
        \A subgraphNode \in Children(heap, _graph) :
            LET after == EnterLeave(subgraphNode) IN
            /\ ~after.thrown
            /\ after.subgraphStack = subgraphStack
            /\ after.graph = _graph
            /\ \A p \in OwnersOf(heap, subgraphNode) :
                  /\ after.heap[p[1]].nodes[p[2]].inputs = heap[p[1]].nodes[p[2]].inputs
                  /\ after.heap[p[1]].nodes[p[2]].outputs = heap[p[1]].nodes[p[2]].outputs

\* This step is a call of backFromSubgraph whose side-position assignment
\* reports errors.
ReconciliationFails ==
    /\ last'.op = "backFromSubgraph"
    /\ subgraphStack # <<>> /\ _graph # NoGraph
    /\ Conflict(updateInterfaces(heap, _graph).inputs)
          \/ Conflict(updateInterfaces(heap, _graph).outputs)

\* C18: when the side-position assignment reports errors, backFromSubgraph
\* raises and no interface of the subgraph-owning node has been added,
\* removed or updated.
C18_FailedReconciliationRaises ==
    [][ReconciliationFails =>
         /\ last'.exit = "thrown"
         /\ OwnerAfter.inputs = OwnerBefore.inputs
         /\ OwnerAfter.outputs = OwnerBefore.outputs
         /\ heap' = heap
      ]_vars

\* backFromSubgraph raised on a side-position conflict while the boundary
\* held an interface the owning node had not got yet.
C18_Witness ==
    /\ last.op = "backFromSubgraph" /\ last.exit = "thrown"
    /\ _graph # NoGraph /\ OwnersOf(heap, _graph) # {}
    /\ Conflict(updateInterfaces(heap, _graph).inputs)
    /\ \E p \in OwnersOf(heap, _graph) :
          /\ heap[p[1]].nodes[p[2]].inputs # <<>>
          /\ SubgraphNodeIds(heap[p[1]].nodes[p[2]].inputs)
               # SubgraphNodeIds(updateInterfaces(heap, _graph).inputs)

\* This step is a call of unwrapSubgraph on node i of the displayed graph.
Unwraps(i) ==
    /\ last'.op = "unwrapSubgraph"
    /\ _graph # NoGraph /\ i \in 1..Len(heap[_graph].nodes)
    /\ heap[_graph].nodes[i].subgraph # NoGraph
    /\ last'.node = heap[_graph].nodes[i].id

\* The subgraph of `node` has exactly one boundary input and one boundary
\* output, and its one connection joins the two.
StraightThrough(node) ==
    LET subgraph == heap[node.subgraph]
        boundary == updateInterfaces(heap, node.subgraph)
    IN /\ Len(boundary.inputs) = 1 /\ Len(boundary.outputs) = 1
       /\ Len(subgraph.connections) = 1
       /\ subgraph.connections[1].from.id = boundary.inputs[1].subgraphNodeId
       /\ subgraph.connections[1].to.id = boundary.outputs[1].subgraphNodeId

\* The connections of the displayed graph that end at `node` and those that
\* start at it.
Incoming(node) ==
    LET Test(c) == c.to.nodeId = node.id IN SelectSeq(heap[_graph].connections, Test)

Outgoing(node) ==
    LET Test(c) == c.from.nodeId = node.id IN SelectSeq(heap[_graph].connections, Test)

\* C19: inlining a node whose subgraph joins its one boundary input straight
\* to its one boundary output, and which has one incoming connection from an
\* interface A and one outgoing connection to an interface B, leaves the
\* parent graph with exactly the one connection from A to B.
C19_InliningConnects ==
    [][\A i \in 1..3 :
         LET node == heap[_graph].nodes[i] IN
         (/\ Unwraps(i)
          /\ StraightThrough(node)
          /\ Len(Incoming(node)) = 1 /\ Len(Outgoing(node)) = 1
          /\ Len(heap[_graph].connections) = 2)
         => heap'[_graph].connections =
              <<[from |-> Incoming(node)[1].from, to |-> Outgoing(node)[1].to]>>
      ]_vars

EndExists(k, end) ==
    \E n \in Range(heap[k].nodes) :
        /\ n.id = end.nodeId
        /\ end.id \in Ids(n.inputs) \cup Ids(n.outputs)

\* C21: after unwrapSubgraph every connection of the parent graph has, at
\* both ends, a node of the parent graph and an interface of that node; no
\* connection ends at a boundary marker or at the removed node.
C21_InlinedConnectionsSound ==
    last.op = "unwrapSubgraph" =>
        \A c \in Range(heap[_graph].connections) :
            /\ EndExists(_graph, c.from) /\ EndExists(_graph, c.to)
            /\ c.from.nodeId # last.node /\ c.to.nodeId # last.node
            /\ c.from.nodeId \notin {BoundaryNodeId(1), BoundaryNodeId(2)}
            /\ c.to.nodeId \notin {BoundaryNodeId(1), BoundaryNodeId(2)}

\* A node was inlined whose subgraph wired a boundary input to a boundary
\* output as well as to a node of its own: the connection to the inlined
\* node was created, the one through the markers was not.
C21_Witness ==
    /\ last.op = "unwrapSubgraph"
    /\ [from |-> Endpoint(11, 101), to |-> Endpoint(21, 103)]
           \in Range(heap[_graph].connections)
    /\ \A c \in Range(heap[_graph].connections) : c.to.nodeId # 13

\* The connections of the subgraph of `node` that join two of its own
\* nodes, neither end at a boundary marker.
InnerConnections(node) ==
    LET subgraph == heap[node.subgraph]
        inner == { n.id : n \in Range(subgraph.nodes) }
        Test(c) == c.from.nodeId \in inner /\ c.to.nodeId \in inner
    IN SelectSeq(subgraph.connections, Test)

RegisteredSubgraphs(h, registered) ==
    { k \in Range(registered) : OwnersOf(h, k) # {} }

\* This step applies a specification while one is active.
Respecified ==
    /\ specificationLoaded
    /\ last'.op = "updateEditorSpecification"
    /\ last'.exit = "returned"
    /\ last'.specification # UndefinedObj

\* C22: when a specification is applied while another is active, afterwards
\* the registered node types are those of the new specification, no
\* subgraph is registered any more, the graph that was displayed has no
\* nodes and no connections, and at most one interface style sheet is
\* installed.
C22_SpecificationReplaced ==
    [][Respecified =>
         /\ nodeTypes' = last'.specification.nodes
         /\ RegisteredSubgraphs(heap', graphs') = {}
         /\ heap'[_graph].nodes = <<>> /\ heap'[_graph].connections = <<>>
         /\ interfacesStyle' <= 1
      ]_vars

SpecificationValid == ajvValidate(process.specification.text) = <<>>

\* Loading the dataflow of the validator run under its specification gives
\* errors.
DataflowFails ==
    LET out == loadDataflow(NewManager.e, dataflow, process.specification.text.nodes,
                            devMode)
    IN out.exit \in {"rejected", "thrown"} \/ out.errors # <<>>

\* C23: a run of the validator without -h ends with code 3 when no
\* specification path is given, 1 when the specification is invalid, 2 when
\* it is valid and the given dataflow fails to load, and 0 when it is valid
\* and no dataflow is given or the dataflow loads without errors.
C23_ValidatorExitCodes ==
    (process.pc = "exited" /\ ~process.help) =>
        process.exitCode =
            IF process.positionals = 0 THEN 3
            ELSE IF ~SpecificationValid THEN 1
            ELSE IF process.positionals >= 2 /\ DataflowFails THEN 2
            ELSE 0

C25_LayoutOfEnteredSubgraph ==
    /\ (last.op = "switchToSubgraph" /\ last.exit = "returned") =>
          /\ layouts # <<>> /\ layouts[Len(layouts)].pc = "tick"
          /\ _graph = layouts[Len(layouts)].subgraphNode
    /\ \A i \in 1..Len(layouts) :
          layouts[i].pc = "layout" => layouts[i].graph = layouts[i].subgraphNode

\* C26: a delivered layout is applied without failure, and only to nodes
\* of the graph it was computed from.
C26_LayoutAppliedToSnapshot ==
    last.op = "updateNodesPosition" =>
        /\ last.exit = "returned"
        /\ last.positioned \subseteq last.nodes
        /\ last.positioned # {} => last.graph = last.snapshot

\* The root graph of a document: the graph of the single-graph form, the
\* one template that no node references of the multi-graph form, and
\* `undefined` for a document without one.
DocumentRoot(state) ==
    IF state.graph = UndefinedObj THEN UndefinedObj
    ELSE IF EntryGraphOf(state) = Undefined
    THEN (IF NodesOf(state.graph) = UndefinedList THEN UndefinedObj ELSE state.graph)
    ELSE IF state.subgraphs = UndefinedList \/ Cardinality(UnreferencedTemplates(state)) # 1
    THEN UndefinedObj
    ELSE state.subgraphs[CHOOSE i \in UnreferencedTemplates(state) : TRUE]

\* The templates of the document with the id `id`.
Matching(state, id) ==
    IF state.subgraphs = UndefinedList THEN <<>> ELSE Fitting(state.subgraphs, id)

\* Some node among `nodes`, or some node reached from them through at most
\* `depth` template references, names a template id that no template or more
\* than one template of the document carries.
RECURSIVE DanglingReference(_, _, _)
DanglingReference(state, nodes, depth) ==
    \E n \in Range(nodes) :
        /\ n.subgraph # Undefined
        /\ \/ Len(Matching(state, n.subgraph)) # 1
           \/ /\ depth > 0
              /\ DanglingReference(state, Matching(state, n.subgraph)[1].nodes, depth - 1)

\* A node reachable from the root of the document references a template id
\* that matches no template or more than one.
ReferenceUnresolved(state) ==
    /\ DocumentRoot(state) # UndefinedObj
    /\ DanglingReference(state, DocumentRoot(state).nodes, MaxTemplates)

\* The displayed graph and its content are those of before the step, or the
\* displayed graph is empty.
NothingApplied ==
    /\ _graph' = _graph
    /\ _graph # NoGraph =>
          \/ /\ heap'[_graph].nodes = heap[_graph].nodes
             /\ heap'[_graph].connections = heap[_graph].connections
          \/ /\ heap'[_graph].nodes = <<>>
             /\ heap'[_graph].connections = <<>>

\* C27: a load of a document in which a node reachable from the root
\* references a template id that matches no template, or more than one,
\* returns a non-empty list of errors, and nothing of the document is
\* applied to the editor.
C27_UnresolvedTemplateRejected ==
    [][(last'.op = "load" /\ ReferenceUnresolved(last'.state)) =>
         /\ last'.exit \in ErrorExits
         /\ last'.errors # <<>>
         /\ NothingApplied
      ]_vars

\* A document whose root references a template id that two templates carry
\* was refused with the error that counts them.
C27_Witness ==
    /\ last.op = "load" /\ last.exit = "template"
    /\ ReferenceUnresolved(last.state)
    /\ \E i \in 1..Len(last.errors) :
          /\ last.errors[i].msg = "Expected exactly one template with ID"
          /\ last.errors[i].got = 2

\* C30: deepCleanEditor, called with a navigation stack of any length that
\* leads from the root graph to the displayed graph, leaves the stack empty
\* and the root graph displayed, without nodes and without connections.
C30_DeepCleanReturnsToRoot ==
    [][(last'.op = "deepCleanEditor" /\ _graph # NoGraph /\ StackIsPath(Ed)) =>
         /\ last'.exit = "returned"
         /\ subgraphStack' = <<>>
         /\ _graph' = RootOf(Ed)
         /\ heap'[_graph'].nodes = <<>>
         /\ heap'[_graph'].connections = <<>>
      ]_vars

\* The graph whose nodes load hands to recurrentSubgraphLoad.
InstantiatedRoot(state) ==
    IF EntryGraphOf(state) = Undefined THEN state.graph ELSE RootGraph(state)

\* The most recent call was a load that reached the instantiation of the
\* templates.
Instantiating ==
    /\ last.op = "load"
    /\ last.exit \notin {"rejected", "noRoot", "noEntry"}
    /\ NodesOf(InstantiatedRoot(last.state)) # UndefinedList

\* The template ids that `nodes` reference.
RefsOf(nodes) == { n.subgraph : n \in Range(nodes) } \ {Undefined}

\* The template ids reached from the ids `ids` through at most k references.
RECURSIVE ReachedFrom(_, _, _)
ReachedFrom(state, ids, k) ==
    IF k = 0 THEN ids
    ELSE ReachedFrom(state,
           ids \cup UNION { RefsOf(t.nodes) : t \in { t \in Range(state.subgraphs) : t.id \in ids } },
           k - 1)

\* The ids of the templates that reference themselves, directly or through
\* other templates.
SelfReferencing(state) ==
    IF state.subgraphs = UndefinedList THEN {}
    ELSE { t.id : t \in { t \in Range(state.subgraphs) :
                            t.id \in ReachedFrom(state, RefsOf(t.nodes), Len(state.subgraphs)) } }

\* A reference of a node of the root leads to a template that references
\* itself.
CycleReached(state) ==
    SelfReferencing(state) \cap
        ReachedFrom(state, RefsOf(InstantiatedRoot(state).nodes), Len(state.subgraphs)) # {}

\* Number of nodes of the document.
DocumentNodes(state) ==
    Len(InstantiatedRoot(state).nodes)
      + (IF state.subgraphs = UndefinedList THEN 0 ELSE CountNodes(state.subgraphs))

\* C31, as stated: a load of a document in which a template references
\* itself, directly or transitively, returns a non-empty list of errors.
C31_CyclicDocumentRefused ==
    (Instantiating /\ SelfReferencing(last.state) # {}) =>
        (last.exit \in ErrorExits /\ last.errors # <<>>)

\* C31, amended: the instantiation of the templates ends after at most one
\* call of recurrentSubgraphLoad for every node of the document, and when a
\* reference of the root leads to a template that references itself, the
\* load returns the non-empty list of errors of the instantiation before
\* anything of the document is applied.
C31_InstantiationTerminates ==
    Instantiating =>
        LET r == LoadEach(last.state, InstantiatedRoot(last.state).nodes, 1, {}) IN
        /\ r.calls <= DocumentNodes(last.state)
        /\ CycleReached(last.state) =>
              /\ r.errors # <<>>
              /\ last.exit = "template"
              /\ last.errors = r.errors

\* A document whose root leads into a cycle through two templates was
\* refused after the instantiation had gone once around the cycle.
C31_Witness ==
    /\ Instantiating
    /\ CycleReached(last.state)
    /\ Cardinality(SelfReferencing(last.state)) = 2
    /\ last.exit = "template"
    /\ \E i \in 1..Len(last.errors) :
          last.errors[i].msg = "Subgraph has multiple nodes pointing to it"
    /\ LoadEach(last.state, InstantiatedRoot(last.state).nodes, 1, {}).calls = 3

\* C32: after every completed call of switchToSubgraph, backFromSubgraph,
\* save, cleanEditor or deepCleanEditor, whether it returned or raised, the
\* history logging is not suppressed.
C32_LoggingResumed ==
    last.op \in {"switchToSubgraph", "backFromSubgraph", "save", "cleanEditor",
                 "deepCleanEditor"} => ~suppressed

\* C33: when every call of load has completed, the displayed graph and its
\* nodes are those of the document loaded last, and its view transform is
\* the saved one of that document, or the fit to its nodes when it saved
\* none, also when that load started while an earlier one was suspended.
C33_LastLoadWins ==
    (loads = <<>> /\ last.op = "load" /\ last.exit = "returned") =>
        /\ heap[_graph].id = last.state.graph.id
        /\ NodeIds(Ed) = [i \in 1..Len(last.state.graph.nodes) |-> last.state.graph.nodes[i].id]
        /\ last.view = "restored" =>
              /\ heap[_graph].panning = last.state.graph.panning
              /\ heap[_graph].scaling = last.state.graph.scaling

====
